---------------------------- MODULE Spec2Model ----------------------------
(***************************************************************************)
(* A model of page.go of rod: the page-session execution and element       *)
(* resolution engine.  Each workflow of Page is a small process whose      *)
(* program counter walks the statements of the Go method; protocol calls   *)
(* (Page.Call) are the suspension points.  The transport, the event bus,   *)
(* and the retry/sleeper combinators of package kit are collaborators of   *)
(* page.go and are modelled by their interface.                            *)
(***************************************************************************)
EXTENDS Integers, Sequences, FiniteSets, TLC

VARIABLES
    \* ---- GetDownloadFileE, one process per concurrent caller ----
    gdfPc,      \* caller -> position in GetDownloadFileE
    gdfLock,    \* lock id -> holder of the sync.Mutex (0: unlocked)
    gdfCtxDone, \* caller -> p.ctx is cancelled / past its deadline
    gdfIn,      \* caller -> the arguments (dir, pattern)
    gdfMsg,     \* caller -> the Fetch.requestPaused event received
    gdfRes,     \* caller -> the replayed response (res of req.Response())
    gdfBody,    \* caller -> the replayed body (req.Bytes())
    gdfErr,     \* caller -> the local variable err
    gdfDefer,   \* caller -> the deferred Fetch.disable closure is registered
    gdfRet,     \* caller -> the values returned (headers, body, err)
    gdfCalls,   \* caller -> the protocol calls it has issued, in order
    gdfNet      \* the inputs of this run: the arguments the callers pass and
                \* what the browser and the network answer (the paused
                \* request, the replayed response and its body), and the
                \* order in which the range over res.Header visits its keys

VARIABLES
    \* ---- ElementByJSE with Page.Sleeper, one lookup ----
    lkPc,       \* position in ElementByJSE / kit.Retry / the merged sleeper
    lkCtxDone,  \* p.ctx is cancelled / past its deadline
    lkThisID,   \* the argument thisID
    lkVal,      \* the variable val: the latest evaluation result
    lkCall,     \* the evaluation in flight: whether p.ctx was done when issued
    lkAttempts, \* what each attempt (call of the retried closure) got from EvalE
    lkSleeps,   \* what each call of the merged sleeper returned
    lkBk,       \* the backoff sleeper of the current sleep
    lkEv,       \* the event sleeper of the current sleep
    lkFirst,    \* the first result handed in by the two sleepers
    lkPending,  \* the filtered channel c holds an event
    lkRet,      \* the values returned (elem, err)
    busSubs,    \* the subscriptions the event bus holds
    busLog,     \* every Subscribe and Unsubscribe, in order
    busLast     \* the last event published

lkVars == <<lkPc, lkCtxDone, lkThisID, lkVal, lkCall, lkAttempts, lkSleeps,
            lkBk, lkEv, lkFirst, lkPending, lkRet, busSubs, busLog, busLast>>

VARIABLES
    \* ---- ElementsByJSE, one bulk lookup ----
    bkPc,       \* position in ElementsByJSE
    bkCtxDone,  \* p.ctx is cancelled / past its deadline
    bkThisID,   \* the argument thisID
    bkRes,      \* what EvalE returned (res, err)
    bkRet,      \* the values returned (list, err)
    bkCalls,    \* the protocol calls issued by ElementsByJSE itself, in order
    bkFatal     \* the errors published on p.browser.fatal

bkVars == <<bkPc, bkCtxDone, bkThisID, bkRes, bkRet, bkCalls, bkFatal>>

VARIABLES
    \* ---- evalIframe, one evaluation on an iframe page ----
    ifPc,        \* position in evalIframe / kit.Retry
    ifCtxDone,   \* p.ctx is cancelled / past its deadline
    ifContextID, \* p.ContextID
    ifRes,       \* the named result res
    ifErr,       \* the named result err
    ifRet,       \* the values returned (res, err)
    ifCalls,     \* the protocol calls issued, in order
    ifWorlds     \* the execution contexts the browser has created so far

ifVars == <<ifPc, ifCtxDone, ifContextID, ifRes, ifErr, ifRet, ifCalls, ifWorlds>>

gdfVars == <<gdfPc, gdfLock, gdfCtxDone, gdfIn, gdfMsg, gdfRes, gdfBody,
             gdfErr, gdfDefer, gdfRet, gdfCalls, gdfNet>>

VARIABLES
    \* ---- EvalE, one evaluation on a page that is not an iframe ----
    evPc,       \* position in EvalE
    evCtxDone,  \* p.ctx is cancelled / past its deadline
    evByValue,  \* the argument byValue
    evThisID,   \* the argument thisID
    evRaw,      \* what eval / evalThis returned (res, err)
    evRet,      \* the values returned (res, err)
    evCalls     \* the protocol calls issued, in order

evVars == <<evPc, evCtxDone, evByValue, evThisID, evRaw, evRet, evCalls>>

VARIABLES
    \* ---- initSession and the calls on the attached page ----
    isPc,        \* position in initSession
    isCtxDone,   \* p.ctx is cancelled / past its deadline
    isSessionID, \* p.SessionID
    isViewport,  \* p.browser.Viewport
    isSets,      \* how many times p.SessionID has been assigned
    isRet,       \* the error initSession returned
    isCalls      \* the protocol calls issued on behalf of the page, in order

isVars == <<isPc, isCtxDone, isSessionID, isViewport, isSets, isRet, isCalls>>

VARIABLES
    \* ---- Ctx, Timeout and CancelTimeout on the handles of one page ----
    hdPages,    \* the Page values: handle -> its fields
    hdCtxs,     \* the contexts: id -> parent and whether its cancel was called
    hdLast      \* the last operation: its receiver as it was before, its result

hdVars == <<hdPages, hdCtxs, hdLast>>

VARIABLES
    \* ---- HandleDialogE, one call ----
    dgPc,       \* position in HandleDialogE
    dgCtxDone,  \* p.ctx is cancelled / past its deadline
    dgIn,       \* the arguments accept and promptText
    dgFirst,    \* what ended the wait first: the event or the context
    dgPub,      \* the events the browser published, and when
    dgRet,      \* the error returned
    dgCalls     \* the calls handed to the transport, in order

dgVars == <<dgPc, dgCtxDone, dgIn, dgFirst, dgPub, dgRet, dgCalls>>

\* the state of the workflows modelled after the first four
pgVars == <<evVars, isVars, hdVars, dgVars>>

\* what the actions of each of these workflows leave alone
evOthers == <<gdfVars, lkVars, bkVars, ifVars, isVars, hdVars, dgVars>>
isOthers == <<gdfVars, lkVars, bkVars, ifVars, evVars, hdVars, dgVars>>
hdOthers == <<gdfVars, lkVars, bkVars, ifVars, evVars, isVars, dgVars>>
dgOthers == <<gdfVars, lkVars, bkVars, ifVars, evVars, isVars, hdVars>>

vars == <<gdfVars, lkVars, bkVars, ifVars, pgVars>>

---------------------------------------------------------------------------
(* Errors.  An error value is a record; NoErr is Go's nil error.           *)

NoErr == [kind |-> "nil", code |-> 0, of |-> ""]

\* ctx.Err(): context.Canceled or context.DeadlineExceeded
CtxErr == [kind |-> "ctx", code |-> 0, of |-> ""]

\* a *cdp.Error returned by the transport for a call of method m
CdpErr(code, m) == [kind |-> "cdp", code |-> code, of |-> m]

\* the protocol error code of an invalid execution context
StaleCode == -32000

\* some other protocol error code
OtherCode == -32601

\* The errors the transport may return for a call of method m made under a
\* context whose cancellation state is done: a protocol error at any time,
\* the context's error once the context is done.
CallErrors(done, m) ==
    {CdpErr(OtherCode, m)} \cup (IF done THEN {CtxErr} ELSE {})

\* The outcomes of a call: success (NoErr) or one of the errors.
CallOutcomes(done, m) == {NoErr} \cup CallErrors(done, m)

\* Go's nil, for a value that is not an error
Nil == [nil |-> TRUE]

\* Page.Call: the message handed to the transport carries the page session.
Call(sessionID, method, params) ==
    [SessionID |-> sessionID, Method |-> method, Params |-> params]

---------------------------------------------------------------------------
(* GetDownloadFileE                                                        *)

NumCallers == 2

Callers == 1 .. NumCallers

\* The Page handle a caller works on: handles of pages of one browser.
PageOf(c) == [TargetID |-> c, SessionID |-> 100 + c]

\* The Page handle of the lookups and of the iframe evaluation.
BkPage == [TargetID |-> 9, SessionID |-> 109, FrameID |-> "frame1"]

\* The mutex a handle's getDownloadFileLock points to: one per browser.
LockOf(c) == 1

GdfDirs == {"tmp/rod-downloads"}
GdfPatterns == {"", "*.png"}
RequestIds == {"req1", "req2"}
GdfUrls == {"http://h/a.png"}
StatusCodes == {200, 404}
\* res.Header of the replayed response: name -> values
HeaderSets ==
    {[ContentType |-> <<"image/png">>, SetCookie |-> <<"a=1", "b=2">>]}

\* the bodies req.Bytes() may read, as sequences of bytes
Bodies == {<<>>, <<77, 97, 110, 1>>}

PausedEvents ==
    [requestId : RequestIds, url : GdfUrls, headers : {[Referer |-> "http://h/"]}]

HttpErr(step) == [kind |-> "http", code |-> 0, of |-> step]

\* the params of Fetch.enable: nil for an empty pattern
FetchEnableParams(pattern) ==
    IF pattern # "" THEN [patterns |-> <<[urlPattern |-> pattern]>>] ELSE Nil

\* the alphabet of base64.StdEncoding
Base64Alphabet ==
    <<"A","B","C","D","E","F","G","H","I","J","K","L","M","N","O","P",
      "Q","R","S","T","U","V","W","X","Y","Z","a","b","c","d","e","f",
      "g","h","i","j","k","l","m","n","o","p","q","r","s","t","u","v",
      "w","x","y","z","0","1","2","3","4","5","6","7","8","9","+","/">>

\* the character of a 6-bit group
Base64Char(n) == Base64Alphabet[n + 1]

\* base64.StdEncoding.EncodeToString: three bytes give four characters, a
\* rest of one or two bytes is padded with "="
RECURSIVE Base64(_)
Base64(bytes) ==
    IF Len(bytes) = 0 THEN <<>>
    ELSE IF Len(bytes) = 1
            THEN <<Base64Char(bytes[1] \div 4), Base64Char((bytes[1] % 4) * 16),
                   "=", "=">>
    ELSE IF Len(bytes) = 2
            THEN <<Base64Char(bytes[1] \div 4),
                   Base64Char((bytes[1] % 4) * 16 + bytes[2] \div 16),
                   Base64Char((bytes[2] % 16) * 4), "=">>
    ELSE <<Base64Char(bytes[1] \div 4),
           Base64Char((bytes[1] % 4) * 16 + bytes[2] \div 16),
           Base64Char((bytes[2] % 16) * 4 + bytes[3] \div 64),
           Base64Char(bytes[3] % 64)>>
         \o Base64(SubSeq(bytes, 4, Len(bytes)))

\* the orders in which a range over the map res.Header may visit its keys
HeaderOrders(header) ==
    {order \in [1 .. Cardinality(DOMAIN header) -> DOMAIN header] :
        \A i, j \in DOMAIN order : i # j => order[i] # order[j]}

\* the loops at 342-349: one {name, value} object per value, the keys in
\* the order of the range, the values of a key in their order
RECURSIVE ResponseHeaders(_, _)
ResponseHeaders(header, order) ==
    IF order = <<>> THEN <<>>
    ELSE [j \in 1 .. Len(header[order[1]]) |->
             [name |-> order[1], value |-> header[order[1]][j]]]
         \o ResponseHeaders(header, SubSeq(order, 2, Len(order)))

\* a call is issued and answered with the error e (NoErr: success)
GdfIssue(c, method, params, e) ==
    gdfCalls' = [gdfCalls EXCEPT ![c] =
        Append(@, [msg |-> Call(PageOf(c).SessionID, method, params), err |-> e])]

\* (mutant of GdfReturn) Fetch.disable is a plain last statement of the
\* success path and not a deferred call
GdfReturnDisableOnSuccessOnly(c, headers, body, err) ==
    /\ gdfRet' = [gdfRet EXCEPT ![c] = [headers |-> headers, body |-> body, err |-> err]]
    /\ gdfPc' = [gdfPc EXCEPT ![c] =
                    IF gdfDefer[c] /\ err = NoErr THEN "disable" ELSE "unlock"]

\* (mutant of GdfReturn) Unlock is a plain last statement and not a deferred
\* call: a return before Fetch.enable succeeded leaves the mutex locked
GdfReturnUnlockAfterEnableOnly(c, headers, body, err) ==
    /\ gdfRet' = [gdfRet EXCEPT ![c] = [headers |-> headers, body |-> body, err |-> err]]
    /\ gdfPc' = [gdfPc EXCEPT ![c] = IF gdfDefer[c] THEN "disable" ELSE "done"]

\* the return statement: the results are fixed, then the deferred calls run
GdfReturn(c, headers, body, err) ==
    /\ gdfRet' = [gdfRet EXCEPT ![c] = [headers |-> headers, body |-> body, err |-> err]]
    /\ gdfPc' = [gdfPc EXCEPT ![c] = IF gdfDefer[c] THEN "disable" ELSE "unlock"]

GdfStart(c) ==
    /\ gdfPc[c] = "idle"
    /\ gdfIn' = [gdfIn EXCEPT ![c] = [dir |-> gdfNet.dir, pattern |-> gdfNet.pattern]]
    /\ gdfPc' = [gdfPc EXCEPT ![c] = "lock"]
    /\ UNCHANGED <<pgVars, lkVars, bkVars, ifVars, gdfNet, gdfLock, gdfCtxDone, gdfMsg, gdfRes, gdfBody, gdfErr,
                   gdfDefer, gdfRet, gdfCalls>>

\* (mutant of GdfLock) the sequence is entered without waiting for the mutex
GdfLockNoMutex(c) ==
    /\ gdfPc[c] = "lock"
    /\ gdfLock' = [gdfLock EXCEPT ![LockOf(c)] = c]
    /\ gdfPc' = [gdfPc EXCEPT ![c] = "setDownloadBehavior"]
    /\ UNCHANGED <<pgVars, lkVars, bkVars, ifVars, gdfNet, gdfCtxDone, gdfIn, gdfMsg, gdfRes, gdfBody, gdfErr,
                   gdfDefer, gdfRet, gdfCalls>>

\* p.getDownloadFileLock.Lock()
GdfLock(c) ==
    /\ gdfPc[c] = "lock"
    /\ gdfLock[LockOf(c)] = 0
    /\ gdfLock' = [gdfLock EXCEPT ![LockOf(c)] = c]
    /\ gdfPc' = [gdfPc EXCEPT ![c] = "setDownloadBehavior"]
    /\ UNCHANGED <<pgVars, lkVars, bkVars, ifVars, gdfNet, gdfCtxDone, gdfIn, gdfMsg, gdfRes, gdfBody, gdfErr,
                   gdfDefer, gdfRet, gdfCalls>>

\* p.Call("Page.setDownloadBehavior", ...)
GdfSetDownloadBehavior(c) ==
    /\ gdfPc[c] = "setDownloadBehavior"
    /\ \E e \in CallOutcomes(gdfCtxDone[c], "Page.setDownloadBehavior") :
          /\ GdfIssue(c, "Page.setDownloadBehavior",
                      [behavior |-> "allow", downloadPath |-> gdfIn[c].dir], e)
          /\ gdfErr' = [gdfErr EXCEPT ![c] = e]
          /\ IF e # NoErr
                THEN GdfReturn(c, Nil, Nil, e)
                ELSE /\ gdfPc' = [gdfPc EXCEPT ![c] = "fetchEnable"]
                     /\ UNCHANGED gdfRet
    /\ UNCHANGED <<pgVars, lkVars, bkVars, ifVars, gdfNet, gdfLock, gdfCtxDone, gdfIn, gdfMsg, gdfRes, gdfBody, gdfDefer>>

\* p.Call("Fetch.enable", params); on success the Fetch.disable closure is
\* deferred
GdfFetchEnable(c) ==
    /\ gdfPc[c] = "fetchEnable"
    /\ \E e \in CallOutcomes(gdfCtxDone[c], "Fetch.enable") :
          /\ GdfIssue(c, "Fetch.enable", FetchEnableParams(gdfIn[c].pattern), e)
          /\ gdfErr' = [gdfErr EXCEPT ![c] = e]
          /\ IF e # NoErr
                THEN /\ GdfReturn(c, Nil, Nil, e)
                     /\ UNCHANGED gdfDefer
                ELSE /\ gdfPc' = [gdfPc EXCEPT ![c] = "wait"]
                     /\ gdfDefer' = [gdfDefer EXCEPT ![c] = TRUE]
                     /\ UNCHANGED gdfRet
    /\ UNCHANGED <<pgVars, lkVars, bkVars, ifVars, gdfNet, gdfLock, gdfCtxDone, gdfIn, gdfMsg, gdfRes, gdfBody>>

\* p.browser.Ctx(p.ctx).WaitEventE("Fetch.requestPaused"): the event arrives,
\* or the context is done and the wait ends with the context's error
GdfWaitEvent(c) ==
    /\ gdfPc[c] = "wait"
    /\ \/ /\ gdfMsg' = [gdfMsg EXCEPT ![c] = gdfNet.msg]
          /\ gdfErr' = [gdfErr EXCEPT ![c] = NoErr]
          /\ gdfPc' = [gdfPc EXCEPT ![c] = "response"]
          /\ UNCHANGED gdfRet
       \/ /\ gdfCtxDone[c]
          /\ gdfErr' = [gdfErr EXCEPT ![c] = CtxErr]
          /\ GdfReturn(c, Nil, Nil, CtxErr)
          /\ UNCHANGED gdfMsg
    /\ UNCHANGED <<pgVars, lkVars, bkVars, ifVars, gdfNet, gdfLock, gdfCtxDone, gdfIn, gdfRes, gdfBody, gdfDefer, gdfCalls>>

\* req := kit.Req(url) with the captured headers; res, err := req.Response()
GdfResponse(c) ==
    /\ gdfPc[c] = "response"
    /\ \/ /\ gdfRes' = [gdfRes EXCEPT ![c] =
                 [url |-> gdfMsg[c].url, reqHeaders |-> gdfMsg[c].headers,
                  StatusCode |-> gdfNet.StatusCode, Header |-> gdfNet.Header]]
          /\ gdfErr' = [gdfErr EXCEPT ![c] = NoErr]
          /\ gdfPc' = [gdfPc EXCEPT ![c] = "bytes"]
          /\ UNCHANGED gdfRet
       \/ /\ gdfErr' = [gdfErr EXCEPT ![c] = HttpErr("Response")]
          /\ GdfReturn(c, Nil, Nil, HttpErr("Response"))
          /\ UNCHANGED gdfRes
    /\ UNCHANGED <<pgVars, lkVars, bkVars, ifVars, gdfNet, gdfLock, gdfCtxDone, gdfIn, gdfMsg, gdfBody, gdfDefer, gdfCalls>>

\* body, err := req.Bytes()
GdfBytes(c) ==
    /\ gdfPc[c] = "bytes"
    /\ \/ /\ gdfBody' = [gdfBody EXCEPT ![c] = gdfNet.body]
          /\ gdfErr' = [gdfErr EXCEPT ![c] = NoErr]
          /\ gdfPc' = [gdfPc EXCEPT ![c] = "fulfill"]
          /\ UNCHANGED gdfRet
       \/ /\ gdfErr' = [gdfErr EXCEPT ![c] = HttpErr("Bytes")]
          /\ GdfReturn(c, Nil, Nil, HttpErr("Bytes"))
          /\ UNCHANGED gdfBody
    /\ UNCHANGED <<pgVars, lkVars, bkVars, ifVars, gdfNet, gdfLock, gdfCtxDone, gdfIn, gdfMsg, gdfRes, gdfDefer, gdfCalls>>

\* (mutant of GdfFulfill) the body is sent as it is, not encoded
GdfFulfillRawBody(c) ==
    /\ gdfPc[c] = "fulfill"
    /\ \E e \in CallOutcomes(gdfCtxDone[c], "Fetch.fulfillRequest") :
          /\ GdfIssue(c, "Fetch.fulfillRequest",
                      [requestId |-> gdfMsg[c].requestId,
                       responseCode |-> gdfRes[c].StatusCode,
                       responseHeaders |-> ResponseHeaders(gdfRes[c].Header, gdfNet.order),
                       body |-> gdfBody[c]], e)
          /\ gdfErr' = [gdfErr EXCEPT ![c] = e]
          /\ GdfReturn(c, gdfRes[c].Header, gdfBody[c], e)
    /\ UNCHANGED <<pgVars, lkVars, bkVars, ifVars, gdfNet, gdfLock, gdfCtxDone, gdfIn, gdfMsg, gdfRes, gdfBody, gdfDefer>>

\* p.Call("Fetch.fulfillRequest", ...); return res.Header, body, err
GdfFulfill(c) ==
    /\ gdfPc[c] = "fulfill"
    /\ \E e \in CallOutcomes(gdfCtxDone[c], "Fetch.fulfillRequest") :
          /\ GdfIssue(c, "Fetch.fulfillRequest",
                      [requestId |-> gdfMsg[c].requestId,
                       responseCode |-> gdfRes[c].StatusCode,
                       responseHeaders |-> ResponseHeaders(gdfRes[c].Header, gdfNet.order),
                       body |-> Base64(gdfBody[c])], e)
          /\ gdfErr' = [gdfErr EXCEPT ![c] = e]
          /\ GdfReturn(c, gdfRes[c].Header, gdfBody[c], e)
    /\ UNCHANGED <<pgVars, lkVars, bkVars, ifVars, gdfNet, gdfLock, gdfCtxDone, gdfIn, gdfMsg, gdfRes, gdfBody, gdfDefer>>

\* (mutant of GdfDisable) err is a named result: the closure's assignment
\* changes the error returned
GdfDisableSetsResult(c) ==
    /\ gdfPc[c] = "disable"
    /\ \E e \in CallOutcomes(gdfCtxDone[c], "Fetch.disable") :
          /\ GdfIssue(c, "Fetch.disable", Nil, e)
          /\ gdfErr' = [gdfErr EXCEPT ![c] = e]
          /\ gdfRet' = [gdfRet EXCEPT ![c].err = e]
    /\ gdfPc' = [gdfPc EXCEPT ![c] = "unlock"]
    /\ UNCHANGED <<pgVars, lkVars, bkVars, ifVars, gdfNet, gdfLock, gdfCtxDone, gdfIn, gdfMsg, gdfRes, gdfBody,
                   gdfDefer>>

\* the deferred closure: _, err = p.Call("Fetch.disable", nil).  It assigns
\* the local err; the results of the return statement are already fixed.
GdfDisable(c) ==
    /\ gdfPc[c] = "disable"
    /\ \E e \in CallOutcomes(gdfCtxDone[c], "Fetch.disable") :
          /\ GdfIssue(c, "Fetch.disable", Nil, e)
          /\ gdfErr' = [gdfErr EXCEPT ![c] = e]
    /\ gdfPc' = [gdfPc EXCEPT ![c] = "unlock"]
    /\ UNCHANGED <<pgVars, lkVars, bkVars, ifVars, gdfNet, gdfLock, gdfCtxDone, gdfIn, gdfMsg, gdfRes, gdfBody,
                   gdfDefer, gdfRet>>

\* the deferred p.getDownloadFileLock.Unlock(), then the function returns and
\* its locals are gone
GdfUnlock(c) ==
    /\ gdfPc[c] = "unlock"
    /\ gdfLock' = [gdfLock EXCEPT ![LockOf(c)] = 0]
    /\ gdfPc' = [gdfPc EXCEPT ![c] = "done"]
    /\ gdfMsg' = [gdfMsg EXCEPT ![c] = Nil]
    /\ gdfRes' = [gdfRes EXCEPT ![c] = Nil]
    /\ gdfBody' = [gdfBody EXCEPT ![c] = Nil]
    /\ gdfErr' = [gdfErr EXCEPT ![c] = NoErr]
    /\ UNCHANGED <<pgVars, lkVars, bkVars, ifVars, gdfNet, gdfCtxDone, gdfIn, gdfDefer, gdfRet, gdfCalls>>

\* the caller's context is cancelled or its deadline passes
GdfCancel(c) ==
    /\ ~gdfCtxDone[c]
    /\ gdfPc[c] \notin {"idle", "done"}
    /\ gdfCtxDone' = [gdfCtxDone EXCEPT ![c] = TRUE]
    /\ UNCHANGED <<pgVars, lkVars, bkVars, ifVars, gdfNet, gdfPc, gdfLock, gdfIn, gdfMsg, gdfRes, gdfBody, gdfErr,
                   gdfDefer, gdfRet, gdfCalls>>

GdfInit ==
    /\ gdfPc = [c \in Callers |-> "idle"]
    /\ gdfLock = [l \in {LockOf(c) : c \in Callers} |-> 0]
    /\ gdfCtxDone = [c \in Callers |-> FALSE]
    /\ gdfIn = [c \in Callers |-> Nil]
    /\ gdfMsg = [c \in Callers |-> Nil]
    /\ gdfRes = [c \in Callers |-> Nil]
    /\ gdfBody = [c \in Callers |-> Nil]
    /\ gdfErr = [c \in Callers |-> NoErr]
    /\ gdfDefer = [c \in Callers |-> FALSE]
    /\ gdfRet = [c \in Callers |-> Nil]
    /\ gdfCalls = [c \in Callers |-> <<>>]

\* what the browser and the network answer in a run: two sets of answers
\* that differ in the request id, the status code, the body and the order of
\* the header keys
GdfReplays ==
    {a \in UNION {[msg : PausedEvents, StatusCode : StatusCodes, Header : {h},
                   order : HeaderOrders(h), body : Bodies] : h \in HeaderSets} :
        /\ (a.msg.requestId = "req1") = (a.StatusCode = 200)
        /\ (a.StatusCode = 200) = (a.body = <<>>)
        /\ (a.body = <<>>) = (a.order[1] = "ContentType")}

\* the runs of the download capture: the arguments and the answers
GdfRuns ==
    {[dir |-> d, pattern |-> p, msg |-> a.msg, StatusCode |-> a.StatusCode,
      Header |-> a.Header, order |-> a.order, body |-> a.body] :
        d \in GdfDirs, p \in GdfPatterns, a \in GdfReplays}

GdfStep(c) ==
    \/ GdfStart(c)
    \/ GdfLock(c)
    \/ GdfSetDownloadBehavior(c)
    \/ GdfFetchEnable(c)
    \/ GdfWaitEvent(c)
    \/ GdfResponse(c)
    \/ GdfBytes(c)
    \/ GdfFulfill(c)
    \/ GdfDisable(c)
    \/ GdfUnlock(c)
    \/ GdfCancel(c)

GdfNext == \E c \in Callers : GdfStep(c)

\* the steps of a caller that need nothing but the caller being scheduled,
\* the mutex being handed over and the transport answering
GdfProgress(c) ==
    \/ GdfLock(c)
    \/ GdfSetDownloadBehavior(c)
    \/ GdfFetchEnable(c)
    \/ GdfResponse(c)
    \/ GdfBytes(c)
    \/ GdfFulfill(c)
    \/ GdfDisable(c)
    \/ GdfUnlock(c)

---------------------------------------------------------------------------
(* Remote evaluation results and EvalE                                     *)

\* a remote object (the "result" of an evaluation in reference mode)
RemoteObject(type, subtype, objectId, value) ==
    [type |-> type, subtype |-> subtype, objectId |-> objectId, value |-> value]

NullObject == RemoteObject("object", "null", "", 0)
NodeObject(id) == RemoteObject("object", "node", id, 0)
ArrayObject(id) == RemoteObject("object", "array", id, 0)
PlainObject(id) == RemoteObject("object", "", id, 0)
NumberValue(n) == RemoteObject("number", "", "", n)

\* exceptionDetails of a payload: absent, or with exception.description
NoException == [exists |-> FALSE, description |-> ""]
Exception(description) == [exists |-> TRUE, description |-> description]

\* the payload of a successful Runtime.evaluate / Runtime.callFunctionOn
EvalPayload(result, exception) ==
    [result |-> result, exceptionDetails |-> exception]

\* the error EvalE builds from exceptionDetails.exception.description
EvalError(payload) ==
    [kind |-> "eval", code |-> 0, of |-> payload.exceptionDetails.description]

\* the method eval / evalThis calls
EvalMethod(thisID) ==
    IF thisID = "" THEN "Runtime.evaluate" ELSE "Runtime.callFunctionOn"

\* EvalE, given what eval / evalThis returned (res, err)
EvalE(byValue, raw) ==
    IF raw.err # NoErr THEN [res |-> Nil, err |-> raw.err]
    ELSE IF raw.res.exceptionDetails.exists
            THEN [res |-> Nil, err |-> EvalError(raw.res)]
    ELSE IF byValue THEN [res |-> raw.res.result.value, err |-> NoErr]
    ELSE [res |-> raw.res, err |-> NoErr]

---------------------------------------------------------------------------
(* ElementByJSE and Page.Sleeper                                           *)

MaxAttempts == 3

\* the remote objects the query of a single-element lookup may evaluate to
LkObjects ==
    {NullObject, NodeObject("node1"), NodeObject("node2"), PlainObject("obj1"),
     ArrayObject("arr1"), NumberValue(42)}

LkThisIDs == {"", "this1"}

\* what eval / evalThis may return to EvalE under a context in state done
LkRaw(done, thisID) ==
    {[res |-> Nil, err |-> e] : e \in CallErrors(done, EvalMethod(thisID))}
    \cup {[res |-> EvalPayload(v, NoException), err |-> NoErr] : v \in LkObjects}
    \cup {[res |-> EvalPayload(PlainObject("exc1"), Exception("Error: boom")),
           err |-> NoErr]}

\* method names, as sequences of characters
MPageLoad == <<"P","a","g","e",".","l","o","a","d","E","v","e","n","t","F","i","r","e","d">>
MDomUpdated == <<"D","O","M",".","d","o","c","u","m","e","n","t","U","p","d","a","t","e","d">>
MDomStorage == <<"D","O","M","S","t","o","r","a","g","e",".","d","o","m","S","t","o","r","a","g","e","I","t","e","m","s","C","l","e","a","r","e","d">>
MNetworkData == <<"N","e","t","w","o","r","k",".","d","a","t","a","R","e","c","e","i","v","e","d">>

BusMethods == {MPageLoad, MDomUpdated, MDomStorage, MNetworkData}

\* strings.HasPrefix
HasPrefix(m, prefix) ==
    /\ Len(m) >= Len(prefix)
    /\ SubSeq(m, 1, Len(prefix)) = prefix

\* (mutant of SleeperFilter) the prefix "DOM" is left out
SleeperFilterPageOnly(m) == HasPrefix(m, <<"P","a","g","e">>)

\* the filter of the event sleeper
SleeperFilter(m) ==
    IF HasPrefix(m, <<"P","a","g","e">>) \/ HasPrefix(m, <<"D","O","M">>)
        THEN TRUE
        ELSE FALSE

\* (mutant of LkNotFound) the null test looks at the type only
LkNotFoundTypeNull(val) == val.type = "null"

\* (mutant of LkNotFound) everything that is no node counts as not found yet
LkNotFoundNotNode(val) == val.subtype # "node"

\* the retried closure's test for "not found yet"
LkNotFound(val) == val.type = "object" /\ val.subtype = "null"

\* &Error{nil, ErrExpectElement, val.Raw}; the value is named by its object id
ErrExpectElement(val) ==
    [kind |-> "ErrExpectElement", code |-> 0, of |-> val.objectId]

Element(objectId) == [ObjectID |-> objectId]

\* what ElementByJSE returns once kit.Retry has returned nil
LkResult(val) ==
    IF val.subtype # "node"
        THEN [elem |-> Nil, err |-> ErrExpectElement(val)]
        ELSE [elem |-> Element(val.objectId), err |-> NoErr]

\* the context of the two sleepers of a sleep: the context kit.MergeSleepers
\* derives from p.ctx, cancelled as soon as one sleeper has returned
LkMergeCtxDone == lkCtxDone \/ lkFirst # "none"

LkStart ==
    /\ lkPc = "idle"
    /\ \E t \in LkThisIDs : lkThisID' = t
    /\ lkPc' = "eval"
    /\ UNCHANGED <<pgVars, gdfVars, bkVars, ifVars, lkCtxDone, lkVal, lkCall, lkAttempts, lkSleeps, lkBk,
                   lkEv, lkFirst, lkPending, lkRet, busSubs, busLog, busLast>>

\* kit.Retry calls the closure: p.EvalE(false, thisID, js, params) is issued
LkEvalCall ==
    /\ lkPc = "eval"
    /\ Len(lkAttempts) < MaxAttempts
    /\ lkCall' = [ctxDone |-> lkCtxDone]
    /\ lkPc' = "evalWait"
    /\ UNCHANGED <<pgVars, gdfVars, bkVars, ifVars, lkCtxDone, lkThisID, lkVal, lkAttempts, lkSleeps, lkBk,
                   lkEv, lkFirst, lkPending, lkRet, busSubs, busLog, busLast>>

\* EvalE returns; the closure returns (stop, err); kit.Retry returns err when
\* stop, and ElementByJSE finishes; otherwise kit.Retry goes to sleep
LkEvalReturn ==
    /\ lkPc = "evalWait"
    /\ \E raw \in LkRaw(lkCtxDone, lkThisID) :
          LET r == EvalE(FALSE, raw) IN
          /\ lkAttempts' = Append(lkAttempts,
                              [res |-> r.res, err |-> r.err, ctxDone |-> lkCall.ctxDone])
          /\ IF r.err # NoErr
                THEN /\ lkRet' = [elem |-> Nil, err |-> r.err]
                     /\ lkPc' = "done"
                     /\ UNCHANGED lkVal
                ELSE /\ lkVal' = r.res.result
                     /\ IF LkNotFound(r.res.result)
                           THEN /\ lkPc' = "sleep"
                                /\ UNCHANGED lkRet
                           ELSE /\ lkRet' = LkResult(r.res.result)
                                /\ lkPc' = "done"
    /\ lkCall' = Nil
    /\ UNCHANGED <<pgVars, gdfVars, bkVars, ifVars, lkCtxDone, lkThisID, lkSleeps, lkBk, lkEv, lkFirst,
                   lkPending, busSubs, busLog, busLast>>

\* the id of the subscription of the current sleep
LkSubId == Cardinality({i \in 1 .. Len(busLog) : busLog[i].op = "Subscribe"})

\* p.browser.event.Unsubscribe(s)
BusUnsubscribe(id) ==
    /\ busSubs' = busSubs \ {id}
    /\ busLog' = Append(busLog, [op |-> "Unsubscribe", id |-> id])

\* kit.Retry calls the sleeper: kit.MergeSleepers starts the backoff sleeper
\* and the event sleeper, which subscribes to the event bus
LkSleepStart ==
    /\ lkPc = "sleep"
    /\ lkBk' = "run"
    /\ lkEv' = "run"
    /\ lkFirst' = "none"
    /\ lkPending' = FALSE
    /\ busSubs' = busSubs \cup {LkSubId + 1}
    /\ busLog' = Append(busLog, [op |-> "Subscribe", id |-> LkSubId + 1])
    /\ lkPc' = "sleeping"
    /\ UNCHANGED <<pgVars, gdfVars, bkVars, ifVars, lkCtxDone, lkThisID, lkVal, lkCall, lkAttempts,
                   lkSleeps, lkRet, busLast>>

\* the backoff sleeper: its timer fires and it returns nil
LkBackoffTimer ==
    /\ lkPc = "sleeping" /\ lkBk = "run"
    /\ lkBk' = "nil"
    /\ lkFirst' = IF lkFirst = "none" THEN "nil" ELSE lkFirst
    /\ UNCHANGED <<pgVars, gdfVars, bkVars, ifVars, lkPc, lkCtxDone, lkThisID, lkVal, lkCall, lkAttempts,
                   lkSleeps, lkEv, lkPending, lkRet, busSubs, busLog, busLast>>

\* the backoff sleeper: its context is done and it returns ctx.Err()
LkBackoffCtxDone ==
    /\ lkPc = "sleeping" /\ lkBk = "run"
    /\ LkMergeCtxDone
    /\ lkBk' = "ctx"
    /\ lkFirst' = IF lkFirst = "none" THEN "ctx" ELSE lkFirst
    /\ UNCHANGED <<pgVars, gdfVars, bkVars, ifVars, lkPc, lkCtxDone, lkThisID, lkVal, lkCall, lkAttempts,
                   lkSleeps, lkEv, lkPending, lkRet, busSubs, busLog, busLast>>

\* the event sleeper: case <-c; the deferred Unsubscribe runs, it returns nil
LkEventWake ==
    /\ lkPc = "sleeping" /\ lkEv = "run"
    /\ lkPending
    /\ BusUnsubscribe(LkSubId)
    /\ lkEv' = "nil"
    /\ lkFirst' = IF lkFirst = "none" THEN "nil" ELSE lkFirst
    /\ UNCHANGED <<pgVars, gdfVars, bkVars, ifVars, lkPc, lkCtxDone, lkThisID, lkVal, lkCall, lkAttempts,
                   lkSleeps, lkBk, lkPending, lkRet, busLast>>

\* (mutant of LkEventCtxDone) Unsubscribe is called on the event path only
LkEventCtxDoneLeak ==
    /\ lkPc = "sleeping" /\ lkEv = "run"
    /\ LkMergeCtxDone
    /\ lkEv' = "ctx"
    /\ lkFirst' = IF lkFirst = "none" THEN "ctx" ELSE lkFirst
    /\ UNCHANGED <<pgVars, gdfVars, bkVars, ifVars, lkPc, lkCtxDone, lkThisID, lkVal, lkCall, lkAttempts,
                   lkSleeps, lkBk, lkPending, lkRet, busSubs, busLog, busLast>>

\* the event sleeper: case <-ctx.Done(); the deferred Unsubscribe runs, it
\* returns ctx.Err()
LkEventCtxDone ==
    /\ lkPc = "sleeping" /\ lkEv = "run"
    /\ LkMergeCtxDone
    /\ BusUnsubscribe(LkSubId)
    /\ lkEv' = "ctx"
    /\ lkFirst' = IF lkFirst = "none" THEN "ctx" ELSE lkFirst
    /\ UNCHANGED <<pgVars, gdfVars, bkVars, ifVars, lkPc, lkCtxDone, lkThisID, lkVal, lkCall, lkAttempts,
                   lkSleeps, lkBk, lkPending, lkRet, busLast>>

\* both sleepers have returned: the merged sleeper returns the first result;
\* kit.Retry returns an error of the sleeper, and calls the closure again
\* otherwise
LkMergeReturn ==
    /\ lkPc = "sleeping" /\ lkBk # "run" /\ lkEv # "run"
    /\ lkSleeps' = Append(lkSleeps, IF lkFirst = "ctx" THEN CtxErr ELSE NoErr)
    /\ IF lkFirst = "ctx"
          THEN /\ lkRet' = [elem |-> Nil, err |-> CtxErr]
               /\ lkPc' = "done"
          ELSE /\ lkPc' = "eval"
               /\ UNCHANGED lkRet
    /\ lkBk' = "off"
    /\ lkEv' = "off"
    /\ lkFirst' = "none"
    /\ lkPending' = FALSE
    /\ UNCHANGED <<pgVars, gdfVars, bkVars, ifVars, lkCtxDone, lkThisID, lkVal, lkCall, lkAttempts,
                   busSubs, busLog, busLast>>

\* the browser publishes an event while the event sleeper is subscribed: the
\* filtered channel gets it when the filter accepts it
BusPublish(m) ==
    /\ lkPc = "sleeping" /\ lkEv = "run"
    /\ busLast' = m
    /\ lkPending' = (lkPending \/ SleeperFilter(m))
    /\ UNCHANGED <<pgVars, gdfVars, bkVars, ifVars, lkPc, lkCtxDone, lkThisID, lkVal, lkCall, lkAttempts,
                   lkSleeps, lkBk, lkEv, lkFirst, lkRet, busSubs, busLog>>

\* the context of the lookup is cancelled or its deadline passes
LkCancel ==
    /\ ~lkCtxDone
    /\ lkPc \notin {"idle", "done"}
    /\ lkCtxDone' = TRUE
    /\ UNCHANGED <<pgVars, gdfVars, bkVars, ifVars, lkPc, lkThisID, lkVal, lkCall, lkAttempts, lkSleeps,
                   lkBk, lkEv, lkFirst, lkPending, lkRet, busSubs, busLog, busLast>>

LkInit ==
    /\ lkPc = "idle"
    /\ lkCtxDone = FALSE
    /\ lkThisID = ""
    /\ lkVal = Nil
    /\ lkCall = Nil
    /\ lkAttempts = <<>>
    /\ lkSleeps = <<>>
    /\ lkBk = "off"
    /\ lkEv = "off"
    /\ lkFirst = "none"
    /\ lkPending = FALSE
    /\ lkRet = [elem |-> Nil, err |-> NoErr]
    /\ busSubs = {}
    /\ busLog = <<>>
    /\ busLast = <<>>

LkNext ==
    \/ LkStart
    \/ LkEvalCall
    \/ LkEvalReturn
    \/ LkSleepStart
    \/ LkBackoffTimer
    \/ LkBackoffCtxDone
    \/ LkEventWake
    \/ LkEventCtxDone
    \/ LkMergeReturn
    \/ \E m \in BusMethods : BusPublish(m)
    \/ LkCancel

---------------------------------------------------------------------------
(* ElementsByJSE                                                           *)

MaxProps == 3

\* the remote objects the query of a bulk lookup may evaluate to
BkObjects ==
    {ArrayObject("arr1"), ArrayObject(""), NodeObject("node1"),
     PlainObject("obj1"), NullObject, NumberValue(42)}

\* what eval / evalThis may return to EvalE under a context in state done
BkRaw(done, thisID) ==
    {[res |-> Nil, err |-> e] : e \in CallErrors(done, EvalMethod(thisID))}
    \cup {[res |-> EvalPayload(v, NoException), err |-> NoErr] : v \in BkObjects}
    \cup {[res |-> EvalPayload(PlainObject("exc1"), Exception("Error: boom")),
           err |-> NoErr]}

\* a property descriptor of the result of Runtime.getProperties
Property(name, value) == [name |-> name, value |-> value]

BkProperties ==
    {Property("0", NodeObject("node1")), Property("1", NodeObject("node2")),
     Property("1", PlainObject("obj2")), Property("2", NumberValue(7)),
     Property("length", NumberValue(2)),
     Property("__proto__", PlainObject("proto1"))}

\* the property lists Runtime.getProperties may answer with
BkPropertyLists ==
    UNION {[1 .. n -> BkProperties] : n \in 0 .. MaxProps}

\* &Error{nil, ErrExpectElements, val}; the value is named by its object id
ErrExpectElements(val) ==
    [kind |-> "ErrExpectElements", code |-> 0, of |-> val.objectId]

\* the Elements value returned: nil, or the list of the elements
NilElements == [nil |-> TRUE, elems |-> <<>>]
Elements(elemList) == [nil |-> FALSE, elems |-> elemList]

\* (mutant of BkSkipped) only "__proto__" is skipped
BkSkippedProtoOnly(name) == name = "__proto__"

\* the entries the enumeration skips
BkSkipped(name) == name = "__proto__" \/ name = "length"

\* elemList := Elements{} and the for loop over list.Get("result").Array(),
\* from entry i on, with the elements collected so far
RECURSIVE BkCollect(_, _, _)
BkCollect(props, i, elemList) ==
    IF i > Len(props) THEN [list |-> Elements(elemList), err |-> NoErr]
    ELSE IF BkSkipped(props[i].name) THEN BkCollect(props, i + 1, elemList)
    ELSE IF props[i].value.subtype # "node"
            THEN [list |-> NilElements, err |-> ErrExpectElements(props[i].value)]
    ELSE BkCollect(props, i + 1,
                   Append(elemList, Element(props[i].value.objectId)))

\* a call is issued and answered with the error e (NoErr: success) and answer
BkIssue(method, params, e, answer) ==
    bkCalls' = Append(bkCalls,
        [msg |-> Call(BkPage.SessionID, method, params), err |-> e,
         answer |-> answer])

\* the return statement: the results are fixed, then the deferred
\* p.ReleaseObject(res) runs when it is registered
BkReturn(list, err, deferred) ==
    /\ bkRet' = [list |-> list, err |-> err]
    /\ bkPc' = IF deferred THEN "release" ELSE "done"

BkStart ==
    /\ bkPc = "idle"
    /\ \E t \in LkThisIDs : bkThisID' = t
    /\ bkPc' = "eval"
    /\ UNCHANGED <<pgVars, gdfVars, lkVars, ifVars, bkCtxDone, bkRes, bkRet, bkCalls, bkFatal>>

\* res, err := p.EvalE(false, thisID, js, params), the checks of the result
\* and the registration of the deferred release
BkEval ==
    /\ bkPc = "eval"
    /\ \E raw \in BkRaw(bkCtxDone, bkThisID) :
          LET r == EvalE(FALSE, raw) IN
          /\ bkRes' = r
          /\ IF r.err # NoErr THEN BkReturn(NilElements, r.err, FALSE)
             ELSE IF r.res.result.subtype # "array"
                     THEN BkReturn(NilElements, ErrExpectElements(r.res.result), FALSE)
             ELSE IF r.res.result.objectId = ""
                     THEN BkReturn(Elements(<<>>), NoErr, FALSE)
             ELSE /\ bkPc' = "getProperties"
                  /\ UNCHANGED bkRet
    /\ UNCHANGED <<pgVars, gdfVars, lkVars, ifVars, bkCtxDone, bkThisID, bkCalls, bkFatal>>

\* list, err := p.Call("Runtime.getProperties", ...) and the enumeration
BkGetProperties ==
    /\ bkPc = "getProperties"
    /\ LET params == [objectId |-> bkRes.res.result.objectId, ownProperties |-> TRUE] IN
       \/ \E e \in CallErrors(bkCtxDone, "Runtime.getProperties") :
             /\ BkIssue("Runtime.getProperties", params, e, <<>>)
             /\ BkReturn(NilElements, e, TRUE)
       \/ \E props \in BkPropertyLists :
             /\ BkIssue("Runtime.getProperties", params, NoErr, props)
             /\ LET r == BkCollect(props, 1, <<>>) IN BkReturn(r.list, r.err, TRUE)
    /\ UNCHANGED <<pgVars, gdfVars, lkVars, ifVars, bkCtxDone, bkThisID, bkRes, bkFatal>>

\* the deferred p.ReleaseObject(res): Runtime.releaseObject for
\* res.Get("result.objectId"); an error goes to p.browser.fatal
BkReleaseObject ==
    /\ bkPc = "release"
    /\ \E e \in CallOutcomes(bkCtxDone, "Runtime.releaseObject") :
          /\ BkIssue("Runtime.releaseObject",
                     [objectId |-> bkRes.res.result.objectId], e, <<>>)
          /\ bkFatal' = IF e # NoErr THEN Append(bkFatal, e) ELSE bkFatal
    /\ bkPc' = "done"
    /\ UNCHANGED <<pgVars, gdfVars, lkVars, ifVars, bkCtxDone, bkThisID, bkRes, bkRet>>

\* the context of the lookup is cancelled or its deadline passes
BkCancel ==
    /\ ~bkCtxDone
    /\ bkPc \notin {"idle", "done"}
    /\ bkCtxDone' = TRUE
    /\ UNCHANGED <<pgVars, gdfVars, lkVars, ifVars, bkPc, bkThisID, bkRes, bkRet, bkCalls, bkFatal>>

BkInit ==
    /\ bkPc = "idle"
    /\ bkCtxDone = FALSE
    /\ bkThisID = ""
    /\ bkRes = [res |-> Nil, err |-> NoErr]
    /\ bkRet = [list |-> NilElements, err |-> NoErr]
    /\ bkCalls = <<>>
    /\ bkFatal = <<>>

BkNext ==
    \/ BkStart
    \/ BkEval
    \/ BkGetProperties
    \/ BkReleaseObject
    \/ BkCancel

---------------------------------------------------------------------------
(* evalIframe and initIsolatedWorld                                        *)

MaxEvals == 3

\* the ContextID of the frame page before the evaluation
FirstContextID == 1

\* what Runtime.evaluate may answer with on success
IfPayloads ==
    {EvalPayload(NumberValue(1), NoException),
     EvalPayload(NodeObject("node1"), NoException),
     EvalPayload(PlainObject("exc1"), Exception("Error: boom"))}

\* params["contextId"] = p.ContextID on the parameters built by eval
IfEvalParams(contextID) ==
    [expression |-> "js", awaitPromise |-> TRUE, returnByValue |-> FALSE,
     contextId |-> contextID]

\* a call is issued and answered with the error e (NoErr: success) and answer
IfIssue(method, params, e, answer) ==
    ifCalls' = Append(ifCalls,
        [msg |-> Call(BkPage.SessionID, method, params), err |-> e,
         answer |-> answer])

IfCallsOf(m) == {i \in 1 .. Len(ifCalls) : ifCalls[i].msg.Method = m}

\* (mutant of IfIsStale) no error counts as a stale context
IfIsStaleNever(err) == FALSE

\* cdpErr, ok := err.(*cdp.Error); ok && cdpErr.Code == -32000
IfIsStale(err) == err.kind = "cdp" /\ err.code = StaleCode

\* p.eval on a page with a FrameID enters evalIframe and kit.Retry
IfStart ==
    /\ ifPc = "idle"
    /\ ifPc' = "evaluate"
    /\ UNCHANGED <<pgVars, gdfVars, lkVars, bkVars, ifCtxDone, ifContextID, ifRes, ifErr, ifRet,
                   ifCalls, ifWorlds>>

\* one run of the closure up to the test of the error: Runtime.evaluate with
\* the current p.ContextID; without a stale-context error the closure returns
\* (true, err), kit.Retry returns err and evalIframe returns (res, err)
IfEvaluate ==
    /\ ifPc = "evaluate"
    /\ Cardinality(IfCallsOf("Runtime.evaluate")) < MaxEvals
    /\ \E raw \in {[res |-> Nil, err |-> e] :
                      e \in {CdpErr(StaleCode, "Runtime.evaluate")}
                            \cup CallErrors(ifCtxDone, "Runtime.evaluate")}
                  \cup {[res |-> v, err |-> NoErr] : v \in IfPayloads} :
          /\ IfIssue("Runtime.evaluate", IfEvalParams(ifContextID), raw.err, raw.res)
          /\ ifRes' = raw.res
          /\ ifErr' = raw.err
          /\ IF IfIsStale(raw.err)
                THEN /\ ifPc' = "createWorld"
                     /\ UNCHANGED ifRet
                ELSE /\ ifRet' = [res |-> raw.res, err |-> raw.err]
                     /\ ifPc' = "done"
    /\ UNCHANGED <<pgVars, gdfVars, lkVars, bkVars, ifCtxDone, ifContextID, ifWorlds>>

\* (mutant of IfInitIsolatedWorld) p.ContextID keeps its value on success
IfInitIsolatedWorldKeepsID ==
    /\ ifPc = "createWorld"
    /\ \/ \E e \in CallErrors(ifCtxDone, "Page.createIsolatedWorld")
                   \cup {CdpErr(StaleCode, "Page.createIsolatedWorld")} :
             /\ IfIssue("Page.createIsolatedWorld", [frameId |-> BkPage.FrameID], e, 0)
             /\ UNCHANGED ifWorlds
       \/ /\ IfIssue("Page.createIsolatedWorld", [frameId |-> BkPage.FrameID],
                     NoErr, ifWorlds + 1)
          /\ ifWorlds' = ifWorlds + 1
    /\ ifPc' = "backoff"
    /\ UNCHANGED <<pgVars, gdfVars, lkVars, bkVars, ifCtxDone, ifContextID, ifRes, ifErr, ifRet>>

\* (mutant of IfInitIsolatedWorld) the error of initIsolatedWorld is returned
\* by the closure: (true, err)
IfInitIsolatedWorldSurfaces ==
    /\ ifPc = "createWorld"
    /\ \/ \E e \in CallErrors(ifCtxDone, "Page.createIsolatedWorld")
                   \cup {CdpErr(StaleCode, "Page.createIsolatedWorld")} :
             /\ IfIssue("Page.createIsolatedWorld", [frameId |-> BkPage.FrameID], e, 0)
             /\ ifRet' = [res |-> ifRes, err |-> e]
             /\ ifPc' = "done"
             /\ UNCHANGED <<ifContextID, ifWorlds>>
       \/ /\ IfIssue("Page.createIsolatedWorld", [frameId |-> BkPage.FrameID],
                     NoErr, ifWorlds + 1)
          /\ ifContextID' = ifWorlds + 1
          /\ ifWorlds' = ifWorlds + 1
          /\ ifPc' = "backoff"
          /\ UNCHANGED ifRet
    /\ UNCHANGED <<pgVars, gdfVars, lkVars, bkVars, ifCtxDone, ifRes, ifErr>>

\* _ = p.initIsolatedWorld(); return false, nil: Page.createIsolatedWorld for
\* p.FrameID, p.ContextID set from the answer on success only, the error
\* dropped, and kit.Retry goes to sleep
IfInitIsolatedWorld ==
    /\ ifPc = "createWorld"
    /\ \/ \E e \in CallErrors(ifCtxDone, "Page.createIsolatedWorld")
                   \cup {CdpErr(StaleCode, "Page.createIsolatedWorld")} :
             /\ IfIssue("Page.createIsolatedWorld", [frameId |-> BkPage.FrameID], e, 0)
             /\ UNCHANGED <<ifContextID, ifWorlds>>
       \/ /\ IfIssue("Page.createIsolatedWorld", [frameId |-> BkPage.FrameID],
                     NoErr, ifWorlds + 1)
          /\ ifContextID' = ifWorlds + 1
          /\ ifWorlds' = ifWorlds + 1
    /\ ifPc' = "backoff"
    /\ UNCHANGED <<pgVars, gdfVars, lkVars, bkVars, ifCtxDone, ifRes, ifErr, ifRet>>

\* the backoff sleeper's timer fires: kit.Retry runs the closure again
IfBackoffTimer ==
    /\ ifPc = "backoff"
    /\ ifPc' = "evaluate"
    /\ UNCHANGED <<pgVars, gdfVars, lkVars, bkVars, ifCtxDone, ifContextID, ifRes, ifErr, ifRet,
                   ifCalls, ifWorlds>>

\* the backoff sleeper sees the context done: kit.Retry returns the
\* context's error, which evalIframe assigns to err and returns with res
IfBackoffCtxDone ==
    /\ ifPc = "backoff"
    /\ ifCtxDone
    /\ ifErr' = CtxErr
    /\ ifRet' = [res |-> ifRes, err |-> CtxErr]
    /\ ifPc' = "done"
    /\ UNCHANGED <<pgVars, gdfVars, lkVars, bkVars, ifCtxDone, ifContextID, ifRes, ifCalls, ifWorlds>>

\* the context of the evaluation is cancelled or its deadline passes
IfCancel ==
    /\ ~ifCtxDone
    /\ ifPc \notin {"idle", "done"}
    /\ ifCtxDone' = TRUE
    /\ UNCHANGED <<pgVars, gdfVars, lkVars, bkVars, ifPc, ifContextID, ifRes, ifErr, ifRet, ifCalls,
                   ifWorlds>>

IfInit ==
    /\ ifPc = "idle"
    /\ ifCtxDone = FALSE
    /\ ifContextID = FirstContextID
    /\ ifRes = Nil
    /\ ifErr = NoErr
    /\ ifRet = [res |-> Nil, err |-> NoErr]
    /\ ifCalls = <<>>
    /\ ifWorlds = FirstContextID

IfNext ==
    \/ IfStart
    \/ IfEvaluate
    \/ IfInitIsolatedWorld
    \/ IfBackoffTimer
    \/ IfBackoffCtxDone
    \/ IfCancel

---------------------------------------------------------------------------
(* EvalE on a page that is not an iframe                                   *)

EvThisIDs == {"", "this1", "this2"}

\* the remote values an evaluation may produce
EvObjects ==
    {NumberValue(42), NumberValue(0), NullObject, NodeObject("node1"),
     PlainObject("obj1"), ArrayObject("arr1")}

EvDescriptions == {"Error: boom", "TypeError: x is not a function"}

\* what Runtime.evaluate / Runtime.callFunctionOn may answer with on success
EvPayloads ==
    {EvalPayload(v, NoException) : v \in EvObjects}
    \cup {EvalPayload(PlainObject("exc1"), Exception(d)) : d \in EvDescriptions}

\* the params eval and evalThis build
EvParams(byValue, thisID) ==
    IF thisID = ""
       THEN [expression |-> "js", awaitPromise |-> TRUE, returnByValue |-> byValue]
       ELSE [objectId |-> thisID, awaitPromise |-> TRUE, returnByValue |-> byValue,
             functionDeclaration |-> "js", arguments |-> <<>>]

\* EvalE is called with byValue, thisID
EvStart ==
    /\ evPc = "idle"
    /\ \E b \in BOOLEAN, t \in EvThisIDs :
          /\ evByValue' = b
          /\ evThisID' = t
    /\ evPc' = "call"
    /\ UNCHANGED <<evOthers, evCtxDone, evRaw, evRet, evCalls>>

\* (mutant of EvReturn) in reference mode the payload is returned as it is
EvReturnRawInReferenceMode ==
    /\ evPc = "return"
    /\ evRet' = IF evByValue \/ evRaw.err # NoErr THEN EvalE(evByValue, evRaw)
                ELSE [res |-> evRaw.res, err |-> NoErr]
    /\ evPc' = "done"
    /\ UNCHANGED <<evOthers, evCtxDone, evByValue, evThisID, evRaw, evCalls>>

\* p.eval (Runtime.evaluate) or p.evalThis (Runtime.callFunctionOn) through
\* Page.Call
EvCall ==
    /\ evPc = "call"
    /\ \E raw \in {[res |-> Nil, err |-> e] :
                      e \in CallErrors(evCtxDone, EvalMethod(evThisID))}
                  \cup {[res |-> v, err |-> NoErr] : v \in EvPayloads} :
          /\ evRaw' = raw
          /\ evCalls' = Append(evCalls,
                [msg |-> Call(PageOf(1).SessionID, EvalMethod(evThisID),
                              EvParams(evByValue, evThisID)),
                 err |-> raw.err])
    /\ evPc' = "return"
    /\ UNCHANGED <<evOthers, evCtxDone, evByValue, evThisID, evRet>>

\* the rest of EvalE: the checks of err and exceptionDetails, the value
EvReturn ==
    /\ evPc = "return"
    /\ evRet' = EvalE(evByValue, evRaw)
    /\ evPc' = "done"
    /\ UNCHANGED <<evOthers, evCtxDone, evByValue, evThisID, evRaw, evCalls>>

\* the context of the evaluation is cancelled or its deadline passes
EvCancel ==
    /\ ~evCtxDone
    /\ evPc \notin {"idle", "done"}
    /\ evCtxDone' = TRUE
    /\ UNCHANGED <<evOthers, evPc, evByValue, evThisID, evRaw, evRet, evCalls>>

EvInit ==
    /\ evPc = "idle"
    /\ evCtxDone = FALSE
    /\ evByValue = FALSE
    /\ evThisID = ""
    /\ evRaw = [res |-> Nil, err |-> NoErr]
    /\ evRet = [res |-> Nil, err |-> NoErr]
    /\ evCalls = <<>>

EvNext ==
    \/ EvStart
    \/ EvCall
    \/ EvReturn
    \/ EvCancel

---------------------------------------------------------------------------
(* initSession, SetViewportE and NavigateE                                 *)

MaxNavs == 2

\* the page being attached: its target, no session yet
IsTargetID == "target1"

\* the session ids Target.attachToTarget may answer with
SessionIDs == {"sess1", "sess2"}

\* p.browser.Viewport: not configured (nil), or the override parameters
Viewports == {Nil, [width |-> 800, height |-> 600]}

\* Page.Call: the call carries the SessionID the page has at that moment
IsIssue(method, params, e, answer) ==
    isCalls' = Append(isCalls,
        [msg |-> Call(isSessionID, method, params), err |-> e, answer |-> answer])

IsStart ==
    /\ isPc = "idle"
    /\ \E v \in Viewports : isViewport' = v
    /\ isPc' = "attach"
    /\ UNCHANGED <<isOthers, isCtxDone, isSessionID, isSets, isRet, isCalls>>

\* (mutant of IsAttach) the sessionId of the answer is not stored
IsAttachKeepsSessionID ==
    /\ isPc = "attach"
    /\ \/ \E e \in CallErrors(isCtxDone, "Target.attachToTarget") :
             /\ IsIssue("Target.attachToTarget",
                        [targetId |-> IsTargetID, flatten |-> TRUE], e, "")
             /\ isRet' = e
             /\ isPc' = "done"
             /\ UNCHANGED isSets
       \/ \E id \in SessionIDs :
             /\ IsIssue("Target.attachToTarget",
                        [targetId |-> IsTargetID, flatten |-> TRUE], NoErr, id)
             /\ isSets' = isSets + 1
             /\ isPc' = "enable"
             /\ UNCHANGED isRet
    /\ UNCHANGED <<isOthers, isCtxDone, isViewport, isSessionID>>

\* obj, err := p.Call("Target.attachToTarget", ...); on success
\* p.SessionID = obj.Get("sessionId").String()
IsAttach ==
    /\ isPc = "attach"
    /\ \/ \E e \in CallErrors(isCtxDone, "Target.attachToTarget") :
             /\ IsIssue("Target.attachToTarget",
                        [targetId |-> IsTargetID, flatten |-> TRUE], e, "")
             /\ isRet' = e
             /\ isPc' = "done"
             /\ UNCHANGED <<isSessionID, isSets>>
       \/ \E id \in SessionIDs :
             /\ IsIssue("Target.attachToTarget",
                        [targetId |-> IsTargetID, flatten |-> TRUE], NoErr, id)
             /\ isSessionID' = id
             /\ isSets' = isSets + 1
             /\ isPc' = "enable"
             /\ UNCHANGED isRet
    /\ UNCHANGED <<isOthers, isCtxDone, isViewport>>

\* _, err = p.Call("Page.enable", nil)
IsPageEnable ==
    /\ isPc = "enable"
    /\ \E e \in CallOutcomes(isCtxDone, "Page.enable") :
          /\ IsIssue("Page.enable", Nil, e, "")
          /\ IF e # NoErr
                THEN /\ isRet' = e
                     /\ isPc' = "done"
                ELSE /\ isPc' = "viewport"
                     /\ UNCHANGED isRet
    /\ UNCHANGED <<isOthers, isCtxDone, isSessionID, isViewport, isSets>>

\* (mutant of IsSetViewport) the override is sent whether or not a viewport
\* is configured
IsSetViewportAlways ==
    /\ isPc = "viewport"
    /\ \E e \in CallOutcomes(isCtxDone, "Emulation.setDeviceMetricsOverride") :
          /\ IsIssue("Emulation.setDeviceMetricsOverride", isViewport, e, "")
          /\ isRet' = e
    /\ isPc' = "done"
    /\ UNCHANGED <<isOthers, isCtxDone, isSessionID, isViewport, isSets>>

\* return p.SetViewportE(p.browser.Viewport): nil params return nil without
\* a call
IsSetViewport ==
    /\ isPc = "viewport"
    /\ IF isViewport = Nil
          THEN /\ isRet' = NoErr
               /\ UNCHANGED isCalls
          ELSE \E e \in CallOutcomes(isCtxDone, "Emulation.setDeviceMetricsOverride") :
                  /\ IsIssue("Emulation.setDeviceMetricsOverride", isViewport, e, "")
                  /\ isRet' = e
    /\ isPc' = "done"
    /\ UNCHANGED <<isOthers, isCtxDone, isSessionID, isViewport, isSets>>

\* NavigateE on the page once initSession has returned without error
IsNavigate ==
    /\ isPc = "done"
    /\ isRet = NoErr
    /\ Cardinality({i \in 1 .. Len(isCalls) : isCalls[i].msg.Method = "Page.navigate"})
          < MaxNavs
    /\ \E e \in CallOutcomes(isCtxDone, "Page.navigate") :
          IsIssue("Page.navigate", [url |-> "http://h/"], e, "")
    /\ UNCHANGED <<isOthers, isPc, isCtxDone, isSessionID, isViewport, isSets, isRet>>

\* the context of the page is cancelled or its deadline passes
IsCancel ==
    /\ ~isCtxDone
    /\ isPc # "idle"
    /\ isCtxDone' = TRUE
    /\ UNCHANGED <<isOthers, isPc, isSessionID, isViewport, isSets, isRet, isCalls>>

IsInit ==
    /\ isPc = "idle"
    /\ isCtxDone = FALSE
    /\ isSessionID = ""
    /\ isViewport = Nil
    /\ isSets = 0
    /\ isRet = NoErr
    /\ isCalls = <<>>

IsNext ==
    \/ IsStart
    \/ IsAttach
    \/ IsPageEnable
    \/ IsSetViewport
    \/ IsNavigate
    \/ IsCancel

---------------------------------------------------------------------------
(* Ctx, Timeout and CancelTimeout                                          *)

MaxHandles == 4

\* a Page value; ctx is the id of its context, timeoutCancel the id of the
\* context its cancel function cancels (0: nil)
PageValue(targetID, sessionID, ctx, timeoutCancel) ==
    [TargetID |-> targetID, SessionID |-> sessionID, ctx |-> ctx,
     timeoutCancel |-> timeoutCancel]

\* a context: its parent (0: none) and whether its own cancel was called
Context(parent, cancelled) == [parent |-> parent, cancelled |-> cancelled]

\* newObj := *p; newObj.ctx = ctx
CtxCopy(page, ctx) == [page EXCEPT !.ctx = ctx]

\* p.Ctx(ctx) with a context of the caller: a new one, or one in use
HdCtx(h) ==
    /\ h <= Len(hdPages)
    /\ Len(hdPages) < MaxHandles
    /\ \E k \in 1 .. Len(hdCtxs) + 1 :
          /\ k # hdPages[h].ctx
          /\ hdCtxs' = IF k > Len(hdCtxs) THEN Append(hdCtxs, Context(0, FALSE))
                       ELSE hdCtxs
          /\ hdPages' = Append(hdPages, CtxCopy(hdPages[h], k))
    /\ hdLast' = [op |-> "Ctx", receiver |-> h, before |-> hdPages[h],
                  result |-> Len(hdPages) + 1, cancelled |-> 0]
    /\ UNCHANGED hdOthers

\* p.Timeout(d): ctx, cancel := context.WithTimeout(p.ctx, d);
\* p.timeoutCancel = cancel; return p.Ctx(ctx)
HdTimeout(h) ==
    /\ h <= Len(hdPages)
    /\ Len(hdPages) < MaxHandles
    /\ LET k == Len(hdCtxs) + 1
           receiver == [hdPages[h] EXCEPT !.timeoutCancel = k]
       IN /\ hdCtxs' = Append(hdCtxs, Context(hdPages[h].ctx, FALSE))
          /\ hdPages' = Append([hdPages EXCEPT ![h] = receiver], CtxCopy(receiver, k))
    /\ hdLast' = [op |-> "Timeout", receiver |-> h, before |-> hdPages[h],
                  result |-> Len(hdPages) + 1, cancelled |-> 0]
    /\ UNCHANGED hdOthers

\* p.CancelTimeout(): p.timeoutCancel() when it is not nil
HdCancelTimeout(h) ==
    /\ h <= Len(hdPages)
    /\ LET k == hdPages[h].timeoutCancel IN
       /\ hdCtxs' = IF k # 0 THEN [hdCtxs EXCEPT ![k].cancelled = TRUE] ELSE hdCtxs
       /\ hdLast' = [op |-> "CancelTimeout", receiver |-> h, before |-> hdPages[h],
                     result |-> 0, cancelled |-> k]
    /\ UNCHANGED <<hdOthers, hdPages>>

\* one Page, on the background context, with no timeout
HdInit ==
    /\ hdPages = <<PageValue("target1", "sess1", 1, 0)>>
    /\ hdCtxs = <<Context(0, FALSE)>>
    /\ hdLast = [op |-> "none", receiver |-> 0, before |-> PageValue("", "", 0, 0),
                 result |-> 0, cancelled |-> 0]

HdStep(h) ==
    \/ HdCtx(h)
    \/ HdTimeout(h)
    \/ HdCancelTimeout(h)

Handles == 1 .. MaxHandles

HdNext == \E h \in Handles : HdStep(h)

---------------------------------------------------------------------------
(* HandleDialogE: wait for the dialog-opening event, then acknowledge it.  *)
(* WaitEventE of the browser is not in this file: it returns the first     *)
(* event of the given name published after it subscribed, or the error of  *)
(* the context when the context is done first.                             *)

MaxDialogEvents == 2

MDialogOpening == "Page.javascriptDialogOpening"
MDialogClosed == "Page.javascriptDialogClosed"
MHandleDialog == "Page.handleJavaScriptDialog"

\* the events the browser may publish while a dialog is awaited
DgMethods == {MDialogOpening, MDialogClosed, "Page.loadEventFired"}

DgPrompts == {"", "yes"}

\* cdp.Object{"accept": accept, "promptText": promptText}
DgParams(accept, promptText) == [accept |-> accept, promptText |-> promptText]

\* HandleDialogE is called: WaitEventE subscribes and waits
DgStart ==
    /\ dgPc = "idle"
    /\ \E a \in BOOLEAN, t \in DgPrompts : dgIn' = DgParams(a, t)
    /\ dgFirst' = IF dgCtxDone THEN "ctx" ELSE "none"
    /\ dgPc' = "wait"
    /\ UNCHANGED <<dgOthers, dgCtxDone, dgPub, dgRet, dgCalls>>

\* the browser publishes an event; the wait takes the one it waits for
DgPublish(m) ==
    /\ Len(dgPub) < MaxDialogEvents
    /\ dgPc # "done"
    /\ dgPub' = Append(dgPub, [m |-> m, at |-> dgPc, done |-> dgCtxDone])
    /\ dgFirst' = IF dgPc = "wait" /\ dgFirst = "none" /\ m = MDialogOpening
                     THEN "event" ELSE dgFirst
    /\ UNCHANGED <<dgOthers, dgPc, dgCtxDone, dgIn, dgRet, dgCalls>>

\* (mutant of DgWaitReturn) the error of the wait is not looked at
DgWaitReturnIgnoresErr ==
    /\ dgPc = "wait"
    /\ dgFirst # "none"
    /\ dgPc' = "call"
    /\ UNCHANGED <<dgOthers, dgCtxDone, dgIn, dgFirst, dgPub, dgRet, dgCalls>>

\* WaitEventE returns; if err != nil { return err }
DgWaitReturn ==
    /\ dgPc = "wait"
    /\ dgFirst # "none"
    /\ IF dgFirst = "ctx"
          THEN /\ dgRet' = CtxErr
               /\ dgPc' = "done"
          ELSE /\ dgPc' = "call"
               /\ UNCHANGED dgRet
    /\ UNCHANGED <<dgOthers, dgCtxDone, dgIn, dgFirst, dgPub, dgCalls>>

\* p.Call("Page.handleJavaScriptDialog", ...); return err
DgHandle ==
    /\ dgPc = "call"
    /\ \E e \in CallOutcomes(dgCtxDone, MHandleDialog) :
          /\ dgCalls' = Append(dgCalls,
                [msg |-> Call(PageOf(1).SessionID, MHandleDialog, dgIn),
                 err |-> e])
          /\ dgRet' = e
    /\ dgPc' = "done"
    /\ UNCHANGED <<dgOthers, dgCtxDone, dgIn, dgFirst, dgPub>>

\* the context of the page is cancelled or its deadline passes
DgCancel ==
    /\ ~dgCtxDone
    /\ dgPc # "done"
    /\ dgCtxDone' = TRUE
    /\ dgFirst' = IF dgPc = "wait" /\ dgFirst = "none" THEN "ctx" ELSE dgFirst
    /\ UNCHANGED <<dgOthers, dgPc, dgIn, dgPub, dgRet, dgCalls>>

DgInit ==
    /\ dgPc = "idle"
    /\ dgCtxDone = FALSE
    /\ dgIn = DgParams(FALSE, "")
    /\ dgFirst = "none"
    /\ dgPub = <<>>
    /\ dgRet = NoErr
    /\ dgCalls = <<>>

DgNext ==
    \/ DgStart
    \/ \E m \in DgMethods : DgPublish(m)
    \/ DgWaitReturn
    \/ DgHandle
    \/ DgCancel

\* the workflows modelled after the first four, at rest
PgInit ==
    /\ EvInit
    /\ IsInit
    /\ HdInit
    /\ DgInit

---------------------------------------------------------------------------
(* Specifications: one per workflow, the others at rest                    *)

\* no download capture is running and none will in this run
GdfRest == GdfInit /\ gdfNet = Nil

InitDownload ==
    /\ GdfInit /\ gdfNet \in GdfRuns
    /\ LkInit
    /\ BkInit
    /\ IfInit
    /\ PgInit

SpecDownload == InitDownload /\ [][GdfNext]_vars

\* one run of the download capture, for the progress of the callers
InitDownloadLive ==
    /\ InitDownload
    /\ gdfNet.pattern = "*.png"
    /\ gdfNet.StatusCode = 200

\* every caller that can take a step of GdfProgress eventually takes one
SpecDownloadLive ==
    /\ InitDownloadLive
    /\ [][GdfNext]_vars
    /\ \A c \in Callers : WF_vars(GdfProgress(c))

InitLookup ==
    /\ GdfRest
    /\ LkInit
    /\ BkInit
    /\ IfInit
    /\ PgInit

SpecLookup == InitLookup /\ [][LkNext]_vars

\* the steps of the lookup's own goroutines and of the backoff timer; the
\* events of the browser and the cancellation of the context are not among
\* them
LkProgress ==
    \/ LkStart
    \/ LkEvalCall
    \/ LkEvalReturn
    \/ LkSleepStart
    \/ LkBackoffTimer
    \/ LkBackoffCtxDone
    \/ LkEventWake
    \/ LkEventCtxDone
    \/ LkMergeReturn

\* the lookup under a scheduler that lets its goroutines run, a transport
\* that answers and a timer that fires
SpecLookupLive == InitLookup /\ [][LkNext]_vars /\ WF_vars(LkProgress)

InitBulk ==
    /\ GdfRest
    /\ LkInit
    /\ BkInit
    /\ IfInit
    /\ PgInit

SpecBulk == InitBulk /\ [][BkNext]_vars

InitIframe ==
    /\ GdfRest
    /\ LkInit
    /\ BkInit
    /\ IfInit
    /\ PgInit

SpecIframe == InitIframe /\ [][IfNext]_vars

InitEval ==
    /\ GdfRest
    /\ LkInit
    /\ BkInit
    /\ IfInit
    /\ PgInit

SpecEval == InitEval /\ [][EvNext]_vars

InitSession ==
    /\ GdfRest
    /\ LkInit
    /\ BkInit
    /\ IfInit
    /\ PgInit

SpecSession == InitSession /\ [][IsNext]_vars

InitHandles ==
    /\ GdfRest
    /\ LkInit
    /\ BkInit
    /\ IfInit
    /\ PgInit

SpecHandles == InitHandles /\ [][HdNext]_vars

InitDialog ==
    /\ GdfRest
    /\ LkInit
    /\ BkInit
    /\ IfInit
    /\ PgInit

SpecDialog == InitDialog /\ [][DgNext]_vars

---------------------------------------------------------------------------
(* The claims about GetDownloadFileE                                       *)

\* the calls of method m among a caller's calls
GdfCallsOf(c, m) == {i \in 1 .. Len(gdfCalls[c]) : gdfCalls[c][i].msg.Method = m}

\* the caller's Fetch.enable call succeeded
GdfEnabled(c) ==
    \E i \in GdfCallsOf(c, "Fetch.enable") : gdfCalls[c][i].err = NoErr

GdfInSequence(c) ==
    gdfPc[c] \in {"setDownloadBehavior", "fetchEnable", "wait", "response",
                  "bytes", "fulfill", "disable", "unlock"}

\* C2: at most one caller is between its Page.setDownloadBehavior call and its
\* return, and that caller holds the lock throughout, in particular when it
\* is about to issue Fetch.disable.
C2_SequencesNeverOverlap ==
    /\ Cardinality({c \in Callers : GdfInSequence(c)}) <= 1
    /\ \A c \in Callers : GdfInSequence(c) => gdfLock[LockOf(c)] = c

\* C2 witness: one caller waits for Fetch.requestPaused inside its sequence
\* while another is blocked on the lock, having issued no call.
C2_Witness ==
    \E c, d \in Callers :
        /\ c # d
        /\ gdfPc[c] = "wait"
        /\ gdfPc[d] = "lock" /\ gdfCalls[d] = <<>>

---------------------------------------------------------------------------
(* The claims about ElementByJSE and Page.Sleeper                          *)

\* the attempt got an evaluation result (EvalE returned no error)
LkGotResult(a) == a.err = NoErr

\* the result is an object of subtype "null"
LkIsNullResult(a) ==
    /\ a.res.result.type = "object"
    /\ a.res.result.subtype = "null"

\* C3: the first evaluation result that is not an object of subtype "null"
\* ends the retry loop (it is the last attempt and the lookup has returned);
\* with subtype "node" the lookup returned an Element with that result's
\* objectId and no error, otherwise it returned no Element and
\* ErrExpectElement.  (It holds whether or not the context is cancelled.)
C3_FirstNonNullResultDecides ==
    \A i \in 1 .. Len(lkAttempts) :
        LET a == lkAttempts[i] IN
        (LkGotResult(a) /\ ~LkIsNullResult(a)) =>
            /\ i = Len(lkAttempts)
            /\ lkPc = "done"
            /\ IF a.res.result.subtype = "node"
                  THEN /\ lkRet.elem = [ObjectID |-> a.res.result.objectId]
                       /\ lkRet.err = NoErr
                  ELSE /\ lkRet.elem = Nil
                       /\ lkRet.err.kind = "ErrExpectElement"

\* C3 witness: with the context not cancelled, a lookup got null, slept, got
\* a node on the next attempt and returned the Element of that node.
C3_Witness ==
    /\ lkPc = "done" /\ ~lkCtxDone
    /\ Len(lkAttempts) = 2
    /\ LkGotResult(lkAttempts[1]) /\ LkIsNullResult(lkAttempts[1])
    /\ LkGotResult(lkAttempts[2])
    /\ lkAttempts[2].res.result = NodeObject("node2")
    /\ lkRet = [elem |-> [ObjectID |-> "node2"], err |-> NoErr]

\* every attempt so far got a null-subtype object
LkAllNull ==
    /\ Len(lkAttempts) >= 1
    /\ \A i \in 1 .. Len(lkAttempts) :
          LkGotResult(lkAttempts[i]) /\ LkIsNullResult(lkAttempts[i])

\* C4: a lookup whose every attempt got a null-subtype object never returns
\* an Element; it has not returned while its context is not cancelled, and
\* when it has returned it returned the context's error.
C4_AllNullEndsWithCtxErr ==
    LkAllNull =>
        /\ lkRet.elem = Nil
        /\ lkPc = "done" => (lkCtxDone /\ lkRet.err = CtxErr)

\* C4 witness: after several null attempts the context was cancelled and the
\* lookup returned the context's error.
C4_Witness ==
    /\ LkAllNull /\ Len(lkAttempts) >= 2
    /\ lkPc = "done" /\ lkCtxDone /\ lkRet.err = CtxErr

\* the operations op of the bus log on subscription id
BusOps(op, id) ==
    {i \in 1 .. Len(busLog) : busLog[i].op = op /\ busLog[i].id = id}

BusIds == {busLog[i].id : i \in 1 .. Len(busLog)}

\* every subscription is subscribed once and unsubscribed at most once, and
\* is held by the bus exactly until it is unsubscribed; once the lookup has
\* returned every subscription is unsubscribed exactly once and none is held
LkSubscriptionsReleased ==
    /\ \A id \in BusIds :
          /\ Cardinality(BusOps("Subscribe", id)) = 1
          /\ Cardinality(BusOps("Unsubscribe", id)) <= 1
          /\ (id \in busSubs) <=> (BusOps("Unsubscribe", id) = {})
    /\ busSubs \subseteq BusIds
    /\ lkPc = "done" =>
          /\ busSubs = {}
          /\ \A id \in BusIds : Cardinality(BusOps("Unsubscribe", id)) = 1

\* C9 as stated: once the context is cancelled no further attempt is started,
\* a lookup that returns with its context cancelled returns the context's
\* error, and after the return no subscription is left.
C9_CancelStopsAndReleases ==
    /\ \A i \in 2 .. Len(lkAttempts) : ~lkAttempts[i].ctxDone
    /\ (lkPc = "done" /\ lkCtxDone) => lkRet.err = CtxErr
    /\ LkSubscriptionsReleased

\* C9 amended: a sleep that ends on the cancellation of the context is the
\* last one, no attempt follows it and the lookup has returned the context's
\* error and no Element; the context's error is returned only when the
\* context is cancelled; every Subscribe of the sleeper is matched by exactly
\* one Unsubscribe and after the return (by success, error or cancellation)
\* no subscription of the lookup is left.
C9_CancelledSleepEndsAndReleases ==
    /\ \A i \in 1 .. Len(lkSleeps) :
          lkSleeps[i] = CtxErr =>
              /\ i = Len(lkSleeps)
              /\ Len(lkAttempts) = i
              /\ lkPc = "done"
              /\ lkRet = [elem |-> Nil, err |-> CtxErr]
    /\ (lkPc = "done" /\ lkRet.err = CtxErr) => lkCtxDone
    /\ LkSubscriptionsReleased

\* C9 witness: the context was cancelled during the second sleep; the lookup
\* has returned the context's error and both subscriptions are released.
C9_Witness ==
    /\ lkPc = "done" /\ lkCtxDone
    /\ Len(lkSleeps) = 2 /\ lkSleeps[2] = CtxErr
    /\ lkRet.err = CtxErr
    /\ Len(busLog) = 4 /\ busSubs = {}

---------------------------------------------------------------------------
(* The claims about ElementsByJSE                                          *)

\* the evaluation of the bulk lookup returned this remote object
BkResult == bkRes.res.result

\* Runtime.getProperties was issued and answered with a property list
BkEnumerated ==
    /\ bkPc \in {"release", "done"}
    /\ Len(bkCalls) >= 1
    /\ bkCalls[1].msg.Method = "Runtime.getProperties"
    /\ bkCalls[1].err = NoErr

\* the own properties other than "__proto__" and "length", in the order of the
\* answer of Runtime.getProperties
BkKept ==
    SelectSeq(bkCalls[1].answer, LAMBDA p : p.name \notin {"__proto__", "length"})

\* C5: a bulk lookup whose result is an array with a non-empty object id
\* enumerates the properties of that object; when the enumeration succeeded
\* and every own property other than "__proto__" and "length" has a node
\* value, the returned list has exactly one Element per such property, in the
\* order of the answer of Runtime.getProperties, and no error; when some such
\* property is not a node the lookup returns a nil list and ErrExpectElements.
C5_OneElementPerPropertyInOrder ==
    /\ (bkPc \notin {"idle", "eval"} /\ bkRes.err = NoErr
            /\ BkResult.subtype = "array" /\ BkResult.objectId # "")
          => \/ bkPc = "getProperties"
             \/ /\ Len(bkCalls) >= 1
                /\ bkCalls[1].msg.Method = "Runtime.getProperties"
                /\ bkCalls[1].msg.Params.objectId = BkResult.objectId
    /\ BkEnumerated =>
          IF \A i \in 1 .. Len(BkKept) : BkKept[i].value.subtype = "node"
             THEN /\ bkRet.err = NoErr
                  /\ ~bkRet.list.nil
                  /\ bkRet.list.elems =
                        [i \in 1 .. Len(BkKept) |-> Element(BkKept[i].value.objectId)]
             ELSE /\ bkRet.err.kind = "ErrExpectElements"
                  /\ bkRet.list = NilElements

\* C5 witness: the array had two nodes around its "length" entry; the lookup
\* has returned the Elements of the two nodes in the order of the enumeration.
C5_Witness ==
    /\ bkPc = "done"
    /\ BkEnumerated
    /\ bkCalls[1].answer = <<Property("1", NodeObject("node2")),
                             Property("length", NumberValue(2)),
                             Property("0", NodeObject("node1"))>>
    /\ bkRet = [list |-> Elements(<<Element("node2"), Element("node1")>>),
                err |-> NoErr]

\* the Runtime.releaseObject calls of the bulk lookup
BkReleases == {i \in 1 .. Len(bkCalls) : bkCalls[i].msg.Method = "Runtime.releaseObject"}

\* C10 as stated: a bulk lookup that has returned and whose evaluation
\* returned a remote object with a non-empty objectId has issued
\* Runtime.releaseObject for that objectId exactly once, on every exit path,
\* and has issued Runtime.releaseObject for no other object.
C10_ReleasedOnEveryExit ==
    (bkPc = "done" /\ bkRes.err = NoErr /\ BkResult.objectId # "")
       => /\ Cardinality(BkReleases) = 1
          /\ \A i \in BkReleases : bkCalls[i].msg.Params.objectId = BkResult.objectId

\* the part of C10 the code keeps: once the result is an array with a
\* non-empty objectId, the lookup releases that object exactly once, as its
\* last call, whether Runtime.getProperties failed, an entry was not a node
\* or the list was returned; objects of member elements are never released.
BkArrayReleasedOnce ==
    (bkPc = "done" /\ bkRes.err = NoErr /\ BkResult.subtype = "array"
        /\ BkResult.objectId # "")
       => /\ BkReleases = {Len(bkCalls)}
          /\ bkCalls[Len(bkCalls)].msg.Params.objectId = BkResult.objectId

---------------------------------------------------------------------------
(* The claims about evalIframe                                             *)

\* call i is a Runtime.evaluate call answered with the stale-context error
IfStaleAt(i) ==
    /\ ifCalls[i].msg.Method = "Runtime.evaluate"
    /\ ifCalls[i].err.kind = "cdp"
    /\ ifCalls[i].err.code = StaleCode

\* the evaluation has returned the context's error out of the backoff sleep
IfEndedByCancel ==
    /\ ifPc = "done"
    /\ ifCtxDone
    /\ ifRet.err = CtxErr

\* C6: evalIframe never returns an error of code -32000.  Every
\* Runtime.evaluate call answered with the stale-context error is followed by
\* one Page.createIsolatedWorld call and then by a further Runtime.evaluate
\* call, unless the context is cancelled during the sleep in between and the
\* context's error is returned.  Any other answer of Runtime.evaluate, an
\* error or a result, is the last call and is what evalIframe returns.
C6_NeverReturnsStale ==
    /\ ifPc = "done" => ~(ifRet.err.kind = "cdp" /\ ifRet.err.code = StaleCode)
    /\ ifPc = "done" =>
          \/ IfEndedByCancel
          \/ /\ Len(ifCalls) >= 1
             /\ ifCalls[Len(ifCalls)].msg.Method = "Runtime.evaluate"
             /\ ~IfStaleAt(Len(ifCalls))
    /\ \A i \in IfCallsOf("Runtime.evaluate") :
          IF IfStaleAt(i)
             THEN /\ i = Len(ifCalls) => ifPc = "createWorld"
                  /\ i < Len(ifCalls) =>
                        ifCalls[i + 1].msg.Method = "Page.createIsolatedWorld"
                  /\ i + 1 = Len(ifCalls) =>
                        ifPc \in {"backoff", "evaluate"} \/ IfEndedByCancel
                  /\ i + 1 < Len(ifCalls) =>
                        ifCalls[i + 2].msg.Method = "Runtime.evaluate"
             ELSE /\ i = Len(ifCalls)
                  /\ ifPc = "done"
                  /\ ifRet = [res |-> ifCalls[i].answer, err |-> ifCalls[i].err]

\* C6 witness: two stale-context errors, each followed by a recreation, then
\* another protocol error of Runtime.evaluate, returned at once.
C6_Witness ==
    /\ Len(ifCalls) = 5
    /\ IfStaleAt(1)
    /\ IfStaleAt(3)
    /\ ifCalls[5].err = CdpErr(OtherCode, "Runtime.evaluate")
    /\ ifPc = "done"
    /\ ifRet.err = CdpErr(OtherCode, "Runtime.evaluate")

\* C7: a successful Runtime.evaluate call ends the evaluation with its result
\* and a nil error, the same after a stale-context error and a recreation as
\* on the first attempt; the attempt after a successful
\* Page.createIsolatedWorld call carries the context id of that call's
\* answer, which is not the id of the attempt before.
C7_RetryAfterStaleSameAsImmediate ==
    /\ \A i \in IfCallsOf("Runtime.evaluate") :
          ifCalls[i].err = NoErr =>
             /\ ifPc = "done"
             /\ ifRet = [res |-> ifCalls[i].answer, err |-> NoErr]
    /\ \A i \in IfCallsOf("Page.createIsolatedWorld") :
          (ifCalls[i].err = NoErr /\ i < Len(ifCalls)) =>
             /\ ifCalls[i + 1].msg.Params.contextId = ifCalls[i].answer
             /\ ifCalls[i + 1].msg.Params.contextId
                   # ifCalls[i - 1].msg.Params.contextId

\* C7 witness: the first attempt got the stale-context error, the world was
\* recreated, and the second attempt, with the new context id, succeeded.
C7_Witness ==
    /\ Len(ifCalls) = 3
    /\ IfStaleAt(1)
    /\ ifCalls[1].msg.Params.contextId = FirstContextID
    /\ ifCalls[2].err = NoErr
    /\ ifCalls[3].err = NoErr
    /\ ifCalls[3].msg.Params.contextId = ifCalls[2].answer
    /\ ifPc = "done"
    /\ ifRet = [res |-> EvalPayload(NumberValue(1), NoException), err |-> NoErr]

\* call i is a Page.createIsolatedWorld call that failed
IfRecreationFailedAt(i) ==
    /\ ifCalls[i].msg.Method = "Page.createIsolatedWorld"
    /\ ifCalls[i].err # NoErr

---------------------------------------------------------------------------
(* The claims about EvalE                                                  *)

\* C11: an evaluation that has returned never returns a result together
\* with an error.  When the call failed it returned nil and the error of the
\* call; when the answer carries exceptionDetails it returned nil and an
\* error carrying the description of the exception; this in value and in
\* reference mode, for Runtime.evaluate and for Runtime.callFunctionOn.
C11_NoResultWithException ==
    evPc = "done" =>
       /\ evRaw.err # NoErr => evRet.err = evRaw.err
       /\ (evRaw.err = NoErr /\ evRaw.res.exceptionDetails.exists) =>
             /\ evRet.err.kind = "eval"
             /\ evRet.err.of = evRaw.res.exceptionDetails.description
       /\ (evRaw.err = NoErr /\ ~evRaw.res.exceptionDetails.exists) =>
             evRet.err = NoErr
       /\ evRet.err # NoErr => evRet.res = Nil

\* C11 witness: a bound evaluation in reference mode whose answer carried
\* exceptionDetails has returned nil and the error with the description.
C11_Witness ==
    /\ evPc = "done"
    /\ evThisID = "this1"
    /\ ~evByValue
    /\ evCalls[1].msg.Method = "Runtime.callFunctionOn"
    /\ evRaw.res = EvalPayload(PlainObject("exc1"), Exception("Error: boom"))
    /\ evRet = [res |-> Nil, err |-> [kind |-> "eval", code |-> 0, of |-> "Error: boom"]]

---------------------------------------------------------------------------
(* The claims about initSession                                            *)

\* C12 as stated: every call issued on behalf of the page carries a
\* non-empty SessionID, and SessionID is assigned exactly once.
C12_EveryCallCarriesSession ==
    /\ \A i \in 1 .. Len(isCalls) : isCalls[i].msg.SessionID # ""
    /\ isPc = "done" => isSets = 1

\* the Target.attachToTarget call succeeded
IsAttached ==
    /\ Len(isCalls) >= 1
    /\ isCalls[1].err = NoErr

\* C12 amended: Target.attachToTarget is the first call of the page and is
\* issued with the empty SessionID; every other call carries the non-empty
\* sessionId that Target.attachToTarget answered with.  SessionID is assigned
\* once, when that call succeeds, and keeps this value; when the call fails
\* SessionID is never assigned and stays empty.
C12_SessionIDFromAttach ==
    /\ \A i \in 1 .. Len(isCalls) :
          IF isCalls[i].msg.Method = "Target.attachToTarget"
             THEN i = 1 /\ isCalls[i].msg.SessionID = ""
             ELSE /\ IsAttached
                  /\ isCalls[i].msg.SessionID = isCalls[1].answer
                  /\ isCalls[i].msg.SessionID # ""
    /\ IF IsAttached
          THEN isSets = 1 /\ isSessionID = isCalls[1].answer /\ isSessionID # ""
          ELSE isSets = 0 /\ isSessionID = ""

\* C12 witness: the page was attached to session sess2 and two navigations
\* were issued with that session id.
C12_Witness ==
    /\ Len(isCalls) = 4
    /\ isCalls[1].answer = "sess2"
    /\ isCalls[3].msg = Call("sess2", "Page.navigate", [url |-> "http://h/"])
    /\ isCalls[4].msg = Call("sess2", "Page.navigate", [url |-> "http://h/"])
    /\ isSessionID = "sess2"

\* the calls initSession issued
IsInitCalls == SelectSeq(isCalls, LAMBDA c : c.msg.Method # "Page.navigate")

\* C17: initSession issues Target.attachToTarget with flatten = true, then
\* Page.enable, then Emulation.setDeviceMetricsOverride with the configured
\* viewport, each only after the one before succeeded, and the last one only
\* when a viewport is configured.  It returns the error of the first call
\* that failed, which is then its last call (nothing else is issued, no
\* detach), and nil when none failed.  A SessionID stored by a successful
\* attach stays set when a later step fails.
C17_AttachEnableViewportInOrder ==
    LET ic == IsInitCalls IN
    /\ Len(ic) <= 3
    /\ Len(ic) >= 1 =>
          ic[1].msg = Call("", "Target.attachToTarget",
                           [targetId |-> IsTargetID, flatten |-> TRUE])
    /\ Len(ic) >= 2 =>
          /\ ic[1].err = NoErr
          /\ ic[2].msg = Call(isSessionID, "Page.enable", Nil)
    /\ Len(ic) >= 3 =>
          /\ ic[2].err = NoErr
          /\ isViewport # Nil
          /\ ic[3].msg = Call(isSessionID, "Emulation.setDeviceMetricsOverride",
                              isViewport)
    /\ \A i \in 1 .. Len(isCalls) :
          isCalls[i].msg.Method \in
             {"Target.attachToTarget", "Page.enable",
              "Emulation.setDeviceMetricsOverride", "Page.navigate"}
    /\ isPc = "done" =>
          IF \E i \in 1 .. Len(ic) : ic[i].err # NoErr
             THEN /\ ic[Len(ic)].err # NoErr
                  /\ \A i \in 1 .. Len(ic) - 1 : ic[i].err = NoErr
                  /\ isRet = ic[Len(ic)].err
                  /\ Len(isCalls) = Len(ic)
             ELSE /\ isRet = NoErr
                  /\ Len(ic) = IF isViewport = Nil THEN 2 ELSE 3
    /\ (Len(ic) >= 1 /\ ic[1].err = NoErr) => isSessionID = ic[1].answer

\* C17 witness: the attach succeeded, Page.enable failed; initSession has
\* returned that error after two calls and the SessionID is still set.
C17_Witness ==
    /\ isPc = "done"
    /\ Len(isCalls) = 2
    /\ isCalls[1].err = NoErr
    /\ isCalls[2].err = CdpErr(OtherCode, "Page.enable")
    /\ isRet = CdpErr(OtherCode, "Page.enable")
    /\ isSessionID = "sess1"
    /\ isViewport # Nil

---------------------------------------------------------------------------
(* Further claims about GetDownloadFileE                                   *)

\* the caller's Fetch.fulfillRequest calls
GdfFulfills(c) == GdfCallsOf(c, "Fetch.fulfillRequest")

\* C13: the error an invocation returns is the error of the step that ended
\* it and never an error of Fetch.disable: it is fixed when the return
\* statement runs, before Fetch.disable is issued, and is the same after
\* Fetch.disable has succeeded or failed.  With Fetch.fulfillRequest issued
\* it is the outcome of that call; otherwise it is the error of the wait,
\* of the replay or of reading the body.
C13_DisableFailureNeverMasks ==
    \A c \in Callers :
        /\ gdfPc[c] = "disable" => gdfRet[c].err = gdfErr[c]
        /\ (gdfPc[c] \in {"unlock", "done"} /\ GdfEnabled(c)) =>
              /\ gdfCalls[c][Len(gdfCalls[c])].msg.Method = "Fetch.disable"
              /\ gdfRet[c].err.of # "Fetch.disable"
              /\ IF GdfFulfills(c) # {}
                    THEN \A i \in GdfFulfills(c) : gdfRet[c].err = gdfCalls[c][i].err
                    ELSE gdfRet[c].err \in
                            {CtxErr, HttpErr("Response"), HttpErr("Bytes")}

\* C13 witness: reading the body failed and then Fetch.disable failed too;
\* the invocation has returned the error of reading the body.
C13_Witness ==
    \E c \in Callers :
        /\ gdfPc[c] = "done"
        /\ gdfRet[c].err = HttpErr("Bytes")
        /\ gdfCalls[c][Len(gdfCalls[c])].msg.Method = "Fetch.disable"
        /\ gdfCalls[c][Len(gdfCalls[c])].err = CdpErr(OtherCode, "Fetch.disable")

\* a caller that has returned does not hold the mutex, and while a caller
\* waits for Fetch.requestPaused every caller at the lock finds the mutex
\* held by the waiting caller and has issued no call
GdfLockReleasedAndExclusive ==
    \A c \in Callers :
        /\ gdfPc[c] = "done" => gdfLock[LockOf(c)] # c
        /\ gdfPc[c] = "wait" =>
              \A d \in Callers \ {c} :
                  gdfPc[d] = "lock" =>
                     /\ gdfLock[LockOf(d)] = c
                     /\ ~ENABLED GdfLock(d)
                     /\ gdfCalls[d] = <<>>

\* C20: the mutex is released on every exit path, and a caller blocked
\* behind a waiting caller stays blocked and issues no call; and if no
\* caller waits for Fetch.requestPaused for ever (every wait ends, by the
\* event or by cancellation), every caller at the lock eventually enters its
\* sequence.
C20_LockReleasedOnEveryExit ==
    /\ []GdfLockReleasedAndExclusive
    /\ (\A c \in Callers : []<>(gdfPc[c] # "wait"))
          => \A d \in Callers : (gdfPc[d] = "lock") ~> (gdfPc[d] = "setDownloadBehavior")

\* C20 witness: one caller has returned the error of
\* Page.setDownloadBehavior and another caller has entered its sequence after
\* it and holds the mutex.
C20_Witness ==
    \E c, d \in Callers :
        /\ gdfPc[c] = "done"
        /\ gdfRet[c].err = CdpErr(OtherCode, "Page.setDownloadBehavior")
        /\ gdfPc[d] = "fetchEnable"
        /\ gdfLock[LockOf(d)] = d

\* the {name, value} pairs of a header map, one per value
GdfHeaderPairs(header) ==
    UNION {{[name |-> k, value |-> header[k][j]] : j \in 1 .. Len(header[k])} :
              k \in DOMAIN header}

\* C16: while the locals are alive, the replay went to the URL of the paused
\* request with its headers.  An invocation that returned no error returned
\* the headers and the body of the replay, and issued one
\* Fetch.fulfillRequest, carrying the requestId of the paused event, the
\* status code of the replay, one {name, value} object per header value of
\* the replay, and the base64 encoding of the body it returned.
C16_ReturnsAndFulfillsWithReplay ==
    \A c \in Callers :
        /\ gdfRes[c] # Nil =>
              /\ gdfRes[c].url = gdfMsg[c].url
              /\ gdfRes[c].reqHeaders = gdfMsg[c].headers
              /\ gdfMsg[c] = gdfNet.msg
        /\ (gdfPc[c] \in {"disable", "unlock", "done"} /\ gdfRet[c].err = NoErr) =>
              /\ gdfRet[c].headers = gdfNet.Header
              /\ gdfRet[c].body = gdfNet.body
              /\ Cardinality(GdfFulfills(c)) = 1
              /\ \A i \in GdfFulfills(c) :
                    LET params == gdfCalls[c][i].msg.Params IN
                    /\ params.requestId = gdfNet.msg.requestId
                    /\ params.responseCode = gdfNet.StatusCode
                    /\ Len(params.responseHeaders)
                          = Cardinality(GdfHeaderPairs(gdfRet[c].headers))
                    /\ {params.responseHeaders[j] :
                          j \in 1 .. Len(params.responseHeaders)}
                          = GdfHeaderPairs(gdfRet[c].headers)
                    /\ params.body = Base64(gdfRet[c].body)

\* C16 witness: a capture returned a body of four bytes without error, and
\* its Fetch.fulfillRequest carried "TWFuAQ==", request id req2, status 404
\* and the Set-Cookie values in their order.
C16_Witness ==
    \E c \in Callers :
        /\ gdfPc[c] = "done"
        /\ gdfRet[c] = [headers |-> [ContentType |-> <<"image/png">>,
                                     SetCookie |-> <<"a=1", "b=2">>],
                        body |-> <<77, 97, 110, 1>>, err |-> NoErr]
        /\ gdfCalls[c][3].msg.Method = "Fetch.fulfillRequest"
        /\ gdfCalls[c][3].msg.Params =
              [requestId |-> "req2", responseCode |-> 404,
               responseHeaders |-> <<[name |-> "SetCookie", value |-> "a=1"],
                                     [name |-> "SetCookie", value |-> "b=2"],
                                     [name |-> "ContentType", value |-> "image/png"]>>,
               body |-> <<"T", "W", "F", "u", "A", "Q", "=", "=">>]

---------------------------------------------------------------------------
(* The claim about the identifiers of an initialized page                  *)

\* C14 as stated: after initialization no operation on the page writes its
\* identifiers: during and after an evaluation on the iframe page, ContextID
\* is the context id the page was initialized with.
C14_ContextIDReadOnly ==
    ifContextID = FirstContextID

\* what holds instead: ContextID is written by the evaluation itself, once
\* per successful Page.createIsolatedWorld call of the stale-context
\* recovery, with the id of that call's answer
IfContextIDFollowsRecreation ==
    LET created == {i \in IfCallsOf("Page.createIsolatedWorld") : ifCalls[i].err = NoErr}
    IN  IF created = {} THEN ifContextID = FirstContextID
        ELSE \E i \in created :
                /\ \A j \in created : j <= i
                /\ ifContextID = ifCalls[i].answer

---------------------------------------------------------------------------
(* The claim about Ctx, Timeout and CancelTimeout                          *)

\* the last operation derived a handle
HdDerived == hdLast.op \in {"Ctx", "Timeout"}

\* a derived handle has the TargetID and the SessionID of its receiver and
\* another context
HdSameIdentityOtherScope ==
    HdDerived =>
       /\ hdPages[hdLast.result].TargetID = hdLast.before.TargetID
       /\ hdPages[hdLast.result].SessionID = hdLast.before.SessionID
       /\ hdPages[hdLast.result].ctx # hdLast.before.ctx

\* C15 as stated: a derived handle has the identifiers of its receiver and
\* another context; deriving a handle leaves every field of the receiver as
\* it was; CancelTimeout on a handle cancels nothing but the context of that
\* handle.
C15_HandlesNeverInterfere ==
    /\ HdSameIdentityOtherScope
    /\ HdDerived => hdPages[hdLast.receiver] = hdLast.before
    /\ (hdLast.op = "CancelTimeout" /\ hdLast.cancelled # 0) =>
          hdLast.cancelled = hdPages[hdLast.receiver].ctx

\* what holds instead: Ctx leaves its receiver as it was; Timeout leaves it
\* as it was but for timeoutCancel, which then cancels the context of the
\* handle Timeout returned; CancelTimeout cancels the context made by the
\* latest Timeout called on its receiver or on the handle it was copied from
HdTimeoutWritesReceiver ==
    /\ HdSameIdentityOtherScope
    /\ hdLast.op = "Ctx" => hdPages[hdLast.receiver] = hdLast.before
    /\ hdLast.op = "Timeout" =>
          /\ hdPages[hdLast.receiver] =
                [hdLast.before EXCEPT !.timeoutCancel = hdPages[hdLast.result].ctx]
          /\ hdPages[hdLast.result].timeoutCancel = hdPages[hdLast.result].ctx
    /\ hdLast.op = "CancelTimeout" =>
          hdLast.cancelled = hdPages[hdLast.receiver].timeoutCancel

---------------------------------------------------------------------------
(* C18: HandleDialogE acknowledges a dialog only after its opening event   *)

\* a dialog-opening event was published while HandleDialogE was waiting
DgOpeningObserved ==
    \E i \in 1 .. Len(dgPub) :
        dgPub[i].m = MDialogOpening /\ dgPub[i].at = "wait"

\* the context was done before any dialog-opening event reached the wait
DgCancelledBeforeOpening ==
    /\ dgCtxDone
    /\ \A i \in 1 .. Len(dgPub) :
          (dgPub[i].m = MDialogOpening /\ dgPub[i].at = "wait") => dgPub[i].done

\* C18: Page.handleJavaScriptDialog, with the given accept flag and prompt
\* text, is issued only after a Page.javascriptDialogOpening event has been
\* observed, and at most once; when the context is cancelled before any
\* dialog-opening event arrives, HandleDialogE returns the context's error
\* and issues no call.
C18_HandlesOnlyAfterOpening ==
    /\ Len(dgCalls) <= 1
    /\ \A i \in 1 .. Len(dgCalls) :
          /\ dgCalls[i].msg.Method = MHandleDialog
          /\ dgCalls[i].msg.Params = DgParams(dgIn.accept, dgIn.promptText)
          /\ DgOpeningObserved
    /\ DgCancelledBeforeOpening =>
          /\ dgCalls = <<>>
          /\ dgPc # "call"
          /\ dgPc = "done" => dgRet = CtxErr

\* a dialog opened while HandleDialogE waited with accept=true and a prompt
\* text: the acknowledgement was issued once and nil returned
C18_Witness ==
    /\ dgPc = "done"
    /\ dgIn = DgParams(TRUE, "yes")
    /\ DgOpeningObserved
    /\ Len(dgCalls) = 1
    /\ dgCalls[1].msg = Call(PageOf(1).SessionID, MHandleDialog, DgParams(TRUE, "yes"))
    /\ dgRet = NoErr

---------------------------------------------------------------------------
(* C19: the backoff timer guarantees progress, page and DOM events wake    *)

\* the methods of the bus with the prefix "Page" or "DOM"
LkWakingMethods == {MPageLoad, MDomUpdated, MDomStorage}

\* the query is not null any more at the last attempt the model follows
LkFoundAtLast ==
    Len(lkAttempts) = MaxAttempts =>
        ~(LkGotResult(lkAttempts[MaxAttempts])
            /\ LkIsNullResult(lkAttempts[MaxAttempts]))

\* with no cancellation and no waking event, a sleep ends by the timer
LkSleepEndsByTimer ==
    (lkPc = "sleeping" /\ ~lkCtxDone /\ ~lkPending /\ lkFirst # "none") =>
        (lkFirst = "nil" /\ lkBk = "nil")

\* an event reaches the sleeping loop exactly when its method has the prefix
\* "Page" or "DOM"
LkWakesOnPageOrDom ==
    /\ (lkPending' /\ ~lkPending) => busLast' \in LkWakingMethods
    /\ (busLast' # busLast /\ busLast' \in LkWakingMethods) => lkPending'
    /\ (busLast' # busLast /\ busLast' \notin LkWakingMethods) =>
          lkPending' = lkPending

\* the event sleeper returns nil only on an event that reached it, and it
\* can return as soon as one has, whether or not the timer has fired
LkEventWakesAtOnce ==
    /\ (lkPc = "sleeping" /\ lkEv = "nil") => lkPending
    /\ (lkPc = "sleeping" /\ lkEv = "run" /\ lkPending) => ENABLED LkEventWake

\* C19: a lookup with Page.Sleeper whose context is never cancelled, which
\* no Page- or DOM-prefixed event ever reaches and whose query is not null
\* from some attempt on, is attempted again after the backoff timer and
\* eventually returns; an event with the prefix "Page" or "DOM" wakes the
\* loop without waiting for the timer, an event with another prefix does not
\* wake it.
C19_BackoffGuaranteesProgress ==
    /\ ([]~lkCtxDone /\ [](busLast \notin LkWakingMethods) /\ []LkFoundAtLast)
          => <>(lkPc = "done")
    /\ []LkSleepEndsByTimer
    /\ [][LkWakesOnPageOrDom]_vars
    /\ []LkEventWakesAtOnce

\* C19 witness: without cancellation and with no event but a Network one,
\* the lookup slept through MaxAttempts - 1 backoff timers and returned the
\* Element found at the last attempt.
C19_Witness ==
    /\ lkPc = "done" /\ ~lkCtxDone
    /\ busLast = MNetworkData
    /\ Len(lkAttempts) = MaxAttempts
    /\ Len(lkSleeps) = MaxAttempts - 1
    /\ \A i \in 1 .. Len(lkSleeps) : lkSleeps[i] = NoErr
    /\ lkRet = [elem |-> [ObjectID |-> "node1"], err |-> NoErr]

=============================================================================
